---- MODULE Spec2Model ----
(***************************************************************************)
(* A model of the weather provider of weather-py:                          *)
(*   src/services/weatherapi_provider.py  (WeatherAPIProvider)             *)
(*   src/services/weather_service.py      (WeatherService, SearchResult)   *)
(*   src/routes/forecast.py               (get_forecast route)             *)
(* with the enrichment helpers of src/services and src/examples and the    *)
(* event stream of src/chat.py.                                            *)
(*                                                                         *)
(* Python values are modelled as follows.  A str is a sequence of          *)
(* one-character strings.  None is the record [none |-> TRUE].  A dict is  *)
(* a record, a list is a record [list |-> <<...>>], a tuple (a, b) is a    *)
(* record [ok |-> a, info |-> b].  A TTLCache is a function from keys to   *)
(* entries [value, expires, by, at].                                       *)
(*                                                                         *)
(* One provider operation runs at a time.  An operation that has to wait   *)
(* for the upstream API is suspended in `call` with its pending request;   *)
(* the Upstream* actions deliver the response and run the handler up to    *)
(* its next request or to its return.  The clocks may advance while an     *)
(* operation is suspended.                                                 *)
(*                                                                         *)
(* Spec is the provider with one caller at a time; SpecHelpers calls one   *)
(* helper function once; SpecThreads runs two request threads in one       *)
(* cached operation; SpecService runs them in get_weather_service;         *)
(* SpecChat runs the generator of one chat stream.                         *)
(***************************************************************************)
EXTENDS Integers, Sequences, FiniteSets, TLC

VARIABLES
    _api_key,          \* WeatherAPIProvider._api_key: a str, or NoKey
    _weather_cache,    \* the six TTLCache maps of the provider
    _forecast_cache,
    _location_cache,
    _search_cache,
    _hourly_cache,
    _current_cache,
    timer,             \* the monotonic clock the TTLCaches read, in seconds
    today,             \* datetime.now().date(), a triple <<year, month, day>>
    default_zip,       \* os.getenv('DEFAULT_ZIP_CODE'): a str, or NoKey
    workload,          \* the operations the clients of this run invoke
    call,              \* the operation invoked last: suspended or returned
    threads,           \* request threads: the operation each is in, and where
    writes,            \* the threads that wrote to a cache, in the order they did
    _weather_service,  \* routes/forecast.py _weather_service: a provider, or None
    stream             \* chat.py stream_azure_response: the generator of a request

vars == <<_api_key, _weather_cache, _forecast_cache, _location_cache,
          _search_cache, _hourly_cache, _current_cache, timer, today,
          default_zip, workload, call, threads, writes, _weather_service,
          stream>>

caches == <<_weather_cache, _forecast_cache, _location_cache,
            _search_cache, _hourly_cache, _current_cache>>

\* the state of the request threads, which the runs of one caller at a time
\* leave alone
others == <<threads, writes, _weather_service, stream>>

-----------------------------------------------------------------------------
(* Bounds of the model *)

\* seconds the monotonic clock advances in one Tick
TickSeconds == 300

\* the monotonic clock stops advancing here
MaxTimer == 300

\* number of times the wall-clock date rolls over in one run
MaxMidnights == 1

-----------------------------------------------------------------------------
(* Program constants *)

WEATHER_CACHE_TTL == 300
WEATHER_CACHE_MAXSIZE == 100
LOCATION_CACHE_TTL == 3600
LOCATION_CACHE_MAXSIZE == 200
SEARCH_CACHE_TTL == 600
SEARCH_CACHE_MAXSIZE == 100

\* get_weather_data: self._get_history(location, days=7)
HISTORY_DAYS == 7

\* get_weather_data: 'days': 3 of the forecast request
FORECAST_DAYS == 3

\* get_detailed_forecast: "Include hourly data for first 3 days"
HOURLY_DAYS == 3

-----------------------------------------------------------------------------
(* Python values *)

None == [none |-> TRUE]

EmptyDict == [empty |-> TRUE]

List(s) == [list |-> s]

\* bool(v) of the values the provider tests with `if data` / `if not data`
Truthy(v) ==
    /\ v # None
    /\ v # EmptyDict
    /\ v # List(<<>>)

\* dict.get(key, default) on a record
Get(d, k, default) == IF k \in DOMAIN d THEN d[k] ELSE default

-----------------------------------------------------------------------------
(* Strings *)

S(c) == <<c>>

\* str.lower() on one character of the model's alphabet
LowerChar(c) ==
    CASE c = "A" -> "a"
      [] c = "B" -> "b"
      [] OTHER -> c

Lower(s) == [i \in 1..Len(s) |-> LowerChar(s[i])]

\* str.upper() on one character of the model's alphabet
UpperChar(c) ==
    CASE c = "a" -> "A"
      [] c = "b" -> "B"
      [] OTHER -> c

IsAlpha(c) == c \in {"a", "b", "A", "B"}

\* str.title()
Title(s) ==
    [i \in 1..Len(s) |->
        IF i = 1 \/ ~IsAlpha(s[i - 1]) THEN UpperChar(s[i]) ELSE LowerChar(s[i])]

IsSpace(c) == c = " "

RECURSIVE LStrip(_)
LStrip(s) ==
    IF s # <<>> /\ IsSpace(Head(s)) THEN LStrip(Tail(s)) ELSE s

RECURSIVE RStrip(_)
RStrip(s) ==
    IF s # <<>> /\ IsSpace(s[Len(s)]) THEN RStrip(SubSeq(s, 1, Len(s) - 1)) ELSE s

\* str.strip()
Strip(s) == RStrip(LStrip(s))

Digit(n) == <<"0", "1", "2", "3", "4", "5", "6", "7", "8", "9">>[n + 1]

RECURSIVE StrNat(_)
StrNat(n) == IF n < 10 THEN <<Digit(n)>> ELSE StrNat(n \div 10) \o <<Digit(n % 10)>>

\* str(n) of an int
StrInt(n) == IF n < 0 THEN <<"-">> \o StrNat(0 - n) ELSE StrNat(n)

RECURSIVE Join(_, _)
Join(sep, parts) ==
    IF parts = <<>> THEN <<>>
    ELSE IF Len(parts) = 1 THEN parts[1]
    ELSE parts[1] \o sep \o Join(sep, Tail(parts))

\* WeatherAPIProvider._cache_key ignoring case and surrounding whitespace:
\* the same key without the normalisation
CacheKeyVerbatim(args) == Join(<<":">>, args)

\* WeatherAPIProvider._cache_key(*args); args holds str(arg) of each argument
_cache_key(args) ==
    Join(<<":">>, [i \in 1..Len(args) |-> Strip(Lower(args[i]))])

-----------------------------------------------------------------------------
(* Dates: datetime.date as <<year, month, day>> *)

IsLeap(y) == (y % 4 = 0 /\ y % 100 # 0) \/ y % 400 = 0

DaysInMonth(y, m) ==
    IF m = 2 THEN (IF IsLeap(y) THEN 29 ELSE 28)
    ELSE IF m \in {4, 6, 9, 11} THEN 30 ELSE 31

NextDay(d) ==
    IF d[3] < DaysInMonth(d[1], d[2]) THEN <<d[1], d[2], d[3] + 1>>
    ELSE IF d[2] < 12 THEN <<d[1], d[2] + 1, 1>>
    ELSE <<d[1] + 1, 1, 1>>

PrevDay(d) ==
    IF d[3] > 1 THEN <<d[1], d[2], d[3] - 1>>
    ELSE IF d[2] > 1 THEN <<d[1], d[2] - 1, DaysInMonth(d[1], d[2] - 1)>>
    ELSE <<d[1] - 1, 12, 31>>

\* d - timedelta(days=n)
RECURSIVE DaysAgo(_, _)
DaysAgo(d, n) == IF n = 0 THEN d ELSE DaysAgo(PrevDay(d), n - 1)

RECURSIVE DaysAfter(_, _)
DaysAfter(d, n) == IF n = 0 THEN d ELSE DaysAfter(NextDay(d), n - 1)

\* a > b on dates
DateGT(a, b) ==
    \/ a[1] > b[1]
    \/ a[1] = b[1] /\ a[2] > b[2]
    \/ a[1] = b[1] /\ a[2] = b[2] /\ a[3] > b[3]

RECURSIVE ZeroPad(_, _)
ZeroPad(s, width) == IF Len(s) >= width THEN s ELSE ZeroPad(<<"0">> \o s, width)

\* d.strftime('%Y-%m-%d')
Strftime(d) ==
    ZeroPad(StrNat(d[1]), 4) \o <<"-">> \o ZeroPad(StrNat(d[2]), 2)
        \o <<"-">> \o ZeroPad(StrNat(d[3]), 2)

IsDigit(c) == c \in {"0", "1", "2", "3", "4", "5", "6", "7", "8", "9"}

DigitVal(c) == CHOOSE n \in 0..9 : Digit(n) = c

AllDigits(s) == \A i \in 1..Len(s) : IsDigit(s[i])

RECURSIVE NatOf(_)
NatOf(s) == IF s = <<>> THEN 0 ELSE 10 * NatOf(SubSeq(s, 1, Len(s) - 1)) + DigitVal(s[Len(s)])

ValueError == [ok |-> FALSE, date |-> <<0, 0, 0>>]

\* the text %m accepts: 1[0-2]|0[1-9]|[1-9]
IsMonthText(s) ==
    /\ Len(s) \in {1, 2}
    /\ AllDigits(s)
    /\ NatOf(s) \in 1..12

\* the text %d accepts: 3[01]|[12]\d|0[1-9]|[1-9]| [1-9]
IsDayText(s) ==
    \/ Len(s) \in {1, 2} /\ AllDigits(s) /\ NatOf(s) \in 1..31
    \/ Len(s) = 2 /\ s[1] = " " /\ IsDigit(s[2]) /\ s[2] # "0"

DayOfText(s) == IF s[1] = " " THEN DigitVal(s[2]) ELSE NatOf(s)

\* datetime.strptime(s, '%Y-%m-%d').date(): the whole text has to match
\* \d\d\d\d-%m-%d and to name a day of the calendar, else ValueError
Strptime(s) ==
    IF /\ Len(s) \in 8..10
       /\ AllDigits(SubSeq(s, 1, 4))
       /\ s[5] = "-"
       /\ \E j \in {7, 8} :
            /\ s[j] = "-"
            /\ IsMonthText(SubSeq(s, 6, j - 1))
            /\ IsDayText(SubSeq(s, j + 1, Len(s)))
    THEN LET j == CHOOSE k \in {7, 8} :
                    /\ s[k] = "-"
                    /\ IsMonthText(SubSeq(s, 6, k - 1))
                    /\ IsDayText(SubSeq(s, k + 1, Len(s)))
             y == NatOf(SubSeq(s, 1, 4))
             m == NatOf(SubSeq(s, 6, j - 1))
             d == DayOfText(SubSeq(s, j + 1, Len(s)))
         IN  IF y >= 1 /\ d <= DaysInMonth(y, m)
             THEN [ok |-> TRUE, date |-> <<y, m, d>>]
             ELSE ValueError
    ELSE ValueError

-----------------------------------------------------------------------------
(* cachetools.TTLCache, read with the monotonic clock `timer` *)

\* An entry holds its value and the time it expires at.  For the record it
\* also holds `by`: the arguments, as they were written, of the call that
\* stored it, and `at`: the time it was stored; no operation reads them
EmptyCache == [k \in {} |-> [value |-> None, expires |-> 0, by |-> <<>>, at |-> 0]]

\* key in cache, were an entry to last through the instant it expires at
ContainsAtExpiry(cache, key) ==
    /\ key \in DOMAIN cache
    /\ timer <= cache[key].expires

\* key in cache: the key is stored and its entry has not expired
Contains(cache, key) ==
    /\ key \in DOMAIN cache
    /\ timer < cache[key].expires

\* cache[key] of a key the cache contains
GetItem(cache, key) == cache[key].value

\* TTLCache.expire(): drop the entries whose time has come
Expire(cache) ==
    [k \in {x \in DOMAIN cache : timer < cache[x].expires} |-> cache[k]]

\* TTLCache.popitem(): drop the entry that expires first
PopItem(cache) ==
    LET victim == CHOOSE k \in DOMAIN cache :
                      \A x \in DOMAIN cache : cache[k].expires <= cache[x].expires
    IN  [k \in DOMAIN cache \ {victim} |-> cache[k]]

\* cache[key] = value: expired entries are dropped, room is made when the
\* cache is full, and the value is stored for ttl seconds from now
SetItem(cache, key, value, ttl, maxsize, by) ==
    LET live == Expire(cache)
        room == IF key \notin DOMAIN live /\ Cardinality(DOMAIN live) >= maxsize
                THEN PopItem(live)
                ELSE live
    IN  [k \in DOMAIN room \cup {key} |->
            IF k = key THEN [value |-> value, expires |-> timer + ttl, by |-> by,
                             at |-> timer]
            ELSE room[k]]

\* the values a cache holds, expired or not
Values(cache) == {cache[k].value : k \in DOMAIN cache}

\* An expired entry stays in its cache until the next cache[key] = value,
\* but its value can no longer be read: the model forgets the value and
\* keeps the entry
Forgotten == [forgotten |-> TRUE]

Forget(cache, now) ==
    [k \in DOMAIN cache |->
        IF now < cache[k].expires THEN cache[k]
        ELSE [value |-> Forgotten, expires |-> cache[k].expires, by |-> <<>>,
              at |-> cache[k].at]]

-----------------------------------------------------------------------------
(* The upstream API *)

\* what one HTTP GET can come to: a 2xx answer with data, a 2xx answer
\* with an empty JSON body, HTTP 400, another HTTP error status, or a
\* failure of the transport (DNS, timeout, connection reset)
Outcomes == {"ok", "empty", "http400", "http500", "transport"}

NoKey == <<>>

ApiKey == <<"k">>

\* the params dict of a request, with the endpoint it goes to
Request(endpoint, q, days, dt) ==
    [endpoint |-> endpoint, q |-> q, days |-> days, dt |-> dt, key |-> NoKey]

Astro == [moon_phase |-> "Full Moon", moon_illumination |-> "100"]

\* the place the upstream resolves a query to: its geocoder ignores case and
\* surrounding whitespace
Place(q) == Strip(Lower(q))

\* one element of forecast.forecastday
ForecastDay(dt) ==
    [date |-> dt, day |-> [condition |-> "Sunny"], astro |-> Astro,
     hour |-> List(<<[time |-> dt]>>)]

SearchItems ==
    << [name |-> <<"a">>, region |-> <<>>, country |-> <<"U", "K">>],
       [name |-> <<"a", "b">>, region |-> <<"R">>, country |-> <<"U", "S">>] >>

\* the JSON the upstream answers a request with when it has data
Body(req) ==
    CASE req.endpoint = "forecast.json" /\ req.dt = <<>> ->
            [location |-> [name |-> Place(req.q)],
             current  |-> [temp_c |-> "20", uv |-> 50],
             forecast |-> [forecastday |-> List(
                 [i \in 1..req.days |-> ForecastDay(<<"d", "a", "y">> \o StrNat(i))])],
             alerts   |-> [alert |-> List(<<>>)]]
      [] req.endpoint \in {"forecast.json", "history.json"} /\ req.dt # <<>> ->
            [location |-> [name |-> Place(req.q)],
             forecast |-> [forecastday |-> List(<<ForecastDay(req.dt)>>)]]
      [] req.endpoint = "current.json" ->
            [location |-> [name |-> Place(req.q)],
             current  |-> [temp_c |-> "20", uv |-> 50]]
      [] req.endpoint = "search.json" -> List(SearchItems)
      [] req.endpoint = "ip.json" -> [ip |-> req.q, city |-> <<"b">>]

\* the JSON of a 2xx answer that carries nothing
EmptyBody(req) == IF req.endpoint = "search.json" THEN List(<<>>) ELSE EmptyDict

NoException == "none"

\* WeatherServiceError and its subclasses
WeatherServiceErrors ==
    {"WeatherServiceError", "APIKeyMissingError", "LocationNotFoundError",
     "APIRequestError"}

Returned(v) == [exc |-> NoException, value |-> v]

Raised(e) == [exc |-> e, value |-> None]

\* api_key never raising: the key is sent as it is, configured or not
ApiKeyNeverMissing == FALSE

\* WeatherAPIProvider.api_key raises when the key is not configured
ApiKeyMissing == _api_key = NoKey

\* _make_request letting the exceptions of requests through unwrapped
MakeRequestUnwrapped(req, outcome) ==
    CASE outcome = "ok" -> Returned(Body(req))
      [] outcome = "empty" -> Returned(EmptyBody(req))
      [] outcome = "http400" -> Returned(None)
      [] outcome = "http500" -> Raised("HTTPError")
      [] outcome = "transport" -> Raised("RequestException")

\* WeatherAPIProvider._make_request from requests.get on: what it returns
\* or raises for the outcome of its one HTTP GET
_make_request(req, outcome) ==
    CASE outcome = "ok" -> Returned(Body(req))
      [] outcome = "empty" -> Returned(EmptyBody(req))
      [] outcome = "http400" -> Returned(None)
      [] outcome = "http500" -> Raised("APIRequestError")
      [] outcome = "transport" -> Raised("APIRequestError")

-----------------------------------------------------------------------------
(* The operation in progress *)

Ops == {"get_weather_data", "get_current_weather", "validate_location",
        "search_locations", "get_detailed_forecast", "get_hourly_forecast",
        "get_current_location_by_ip", "get_forecast", "get_bulk_weather"}

NoResponse == [status |-> 0, body |-> None]

Idle ==
    [op |-> "none", via |-> "none", q |-> <<>>, n |-> 0, date |-> <<>>,
     status |-> "idle", stage |-> 0, req |-> None,
     forecast_data |-> None, history_data |-> <<>>, ip_data |-> None,
     result |-> None, raised |-> FALSE, hit |-> FALSE,
     requests |-> 0, transport_errors |-> 0, outcomes |-> <<>>,
     hist_ok |-> <<>>, browser |-> FALSE, at |-> 0, response |-> NoResponse,
     locations |-> <<>>, results |-> <<>>, calls |-> <<>>, returns |-> <<>>,
     arg |-> None]

\* an operation is entered with its arguments: location or query q, limit
\* or days n, date
NewCall(op, q, n, date) ==
    [Idle EXCEPT !.op = op, !.via = op, !.q = q, !.n = n, !.date = date,
                 !.status = "running"]

\* get_forecast answering 404 when the provider has no data
ForecastResponseNotFound(weather_info) ==
    IF Truthy(weather_info)
    THEN [status |-> 200,
          body |-> [forecast |-> weather_info.forecast,
                    history |-> Get(weather_info, "history", List(<<>>))]]
    ELSE [status |-> 404, body |-> [error |-> "Unable to fetch weather data"]]

\* routes/forecast.py get_forecast, from the provider's answer on
ForecastResponse(weather_info) ==
    IF Truthy(weather_info)
    THEN [status |-> 200,
          body |-> [forecast |-> weather_info.forecast,
                    history |-> Get(weather_info, "history", List(<<>>))]]
    ELSE [status |-> 500, body |-> [error |-> "Unable to fetch weather data"]]

\* get_bulk_weather appending whatever get_weather_data returns
BulkKeepAll(data) == TRUE

\* get_bulk_weather: "if data"
BulkKeep(data) == Truthy(data)

\* get_weather_data returns data to the loop of get_bulk_weather, which
\* appends it to its results or drops it.  For the record, `returns` keeps
\* what each call of get_weather_data returned; the record of the requests
\* of the call is not kept
BulkCollect(c, data) ==
    [c EXCEPT !.op = "get_bulk_weather", !.stage = 0, !.req = None,
              !.forecast_data = None, !.history_data = <<>>,
              !.requests = 0, !.transport_errors = 0,
              !.outcomes = <<>>, !.hist_ok = <<>>,
              !.returns = Append(@, data),
              !.results = IF BulkKeep(data) THEN Append(@, data) ELSE @]

\* the operation returns v to its caller; its locals are gone.  The time
\* of the return is kept for the record
Return(c, v) ==
    IF c.via = "get_bulk_weather" /\ c.op = "get_weather_data"
    THEN BulkCollect(c, v)
    ELSE [c EXCEPT !.status = "done", !.stage = 0, !.req = None, !.result = v,
              !.at = timer,
              !.forecast_data = None, !.history_data = <<>>, !.ip_data = None,
              !.response = IF c.via = "get_forecast" THEN ForecastResponse(v)
                           ELSE NoResponse]

\* the location or query and the date of the call, as they were written
Written(c) == <<c.q, c.date>>

\* the operation returns the value it found in its cache
Hit(c, v) == [Return(c, v) EXCEPT !.hit = TRUE]

\* an exception leaves the operation
Escape(c) ==
    [Return(c, None) EXCEPT !.raised = TRUE,
        !.response = IF c.via = "get_forecast"
                     THEN [status |-> 500, body |-> [error |-> "Internal Server Error"]]
                     ELSE NoResponse]

\* an exception exc reaches the except clauses of the operation, which
\* catch the exceptions in `caught` and return nodata for them
Except(c, exc, caught, nodata) ==
    IF exc \in caught THEN Return(c, nodata) ELSE Escape(c)

\* requests.get is called for req, with the API key among its parameters
Issue(c, req) ==
    [c EXCEPT !.req = [req EXCEPT !.key = _api_key], !.requests = @ + 1]

\* the response to the pending request has come.  What the upstream did is
\* kept for the record: the outcome of each request outside the history
\* loop, for each request of the history loop whether it was answered with
\* data, and the number of transport failures
Log(c, outcome) ==
    LET in_history == c.op = "get_weather_data" /\ c.stage > 0
    IN  [c EXCEPT !.outcomes = IF in_history THEN @ ELSE Append(@, outcome),
                  !.hist_ok = IF in_history THEN Append(@, outcome = "ok") ELSE @,
                  !.transport_errors = IF outcome = "transport" THEN @ + 1 ELSE @]

\* every exception there is
AnyException ==
    WeatherServiceErrors \cup {"ValueError", "HTTPError", "RequestException", "KeyError"}

K_weather == <<"w", "e", "a", "t", "h", "e", "r">>
K_current == <<"c", "u", "r", "r", "e", "n", "t">>
K_validate == <<"v", "a", "l", "i", "d", "a", "t", "e">>
K_search == <<"s", "e", "a", "r", "c", "h">>
K_detailed == <<"d", "e", "t", "a", "i", "l", "e", "d">>
K_hourly == <<"h", "o", "u", "r", "l", "y">>

Min(a, b) == IF a < b THEN a ELSE b

Max(a, b) == IF a > b THEN a ELSE b

\* seq[:limit]
SliceTo(seq, limit) ==
    IF limit >= 0 THEN SubSeq(seq, 1, Min(limit, Len(seq)))
    ELSE SubSeq(seq, 1, Max(Len(seq) + limit, 0))

-----------------------------------------------------------------------------
(* Arguments the clients pass *)

\* location arguments: "a" and " A " are one place to a human, "b" is
\* another
Locations == {<<"a">>, <<" ", "A", " ">>, <<"b">>}

\* location arguments of get_weather_data, each call of which makes eight
\* requests: one place
BundleLocations == {<<"a">>, <<" ", "A", " ">>}

\* search queries: the empty one, which a missing query comes to, one of a
\* single character, and two of two characters whose cache key is that of
\* the single character
Queries == {<<>>, <<"a">>, <<" ", "a">>, <<" ", "A">>}

\* limit arguments of search_locations (10 is the default)
Limits == {10, 0}

\* days arguments of get_detailed_forecast (10 is the default)
DaysArgs == {10, 3}

\* the date the runs start on
Today0 == <<2024, 3, 1>>

\* date arguments of get_hourly_forecast: the first day, the day after (each
\* is the future, today or the past as midnights pass), and the day after
\* with surrounding whitespace, which is no date
Dates ==
    {Strftime(Today0), Strftime(NextDay(Today0)),
     <<" ">> \o Strftime(NextDay(Today0)) \o <<" ">>}

\* ip arguments of get_current_location_by_ip; the empty one is None
IpArgs == {<<>>, <<"1", ".", "2">>}

\* zip arguments of GET /forecast; the empty one is a missing argument
ZipArgs == {<<>>, <<"a">>}

\* values of DEFAULT_ZIP_CODE in the environment; the empty one is unset
DefaultZips == {<<>>, <<" ", "A", " ">>}

\* the operations that make one request or two
LightOps == {"get_current_weather", "validate_location", "search_locations",
             "get_current_location_by_ip"}

\* the enrichment functions a caller of get_weather_data passes its result to
EnrichFunctions == {"enrich_weather_data", "enrich_with_astronomy"}

\* the operations the clients of one run invoke: any one operation, any
\* two of the light ones, or get_weather_data with the enrichment of what
\* it returns
Workloads ==
    {{op} : op \in Ops} \cup {w \in SUBSET LightOps : Cardinality(w) = 2}
        \cup {{"get_weather_data"} \cup EnrichFunctions}

-----------------------------------------------------------------------------
(* get_weather_data, and the route GET /forecast that calls it *)

\* _get_history: the request of iteration i, dated by the wall clock now
HistoryRequest(location, i) ==
    Request("history.json", location, 0, Strftime(DaysAgo(today, i)))

\* get_weather_data entered without a look at its cache
EnterWeatherDataUncached(c, location) ==
    IF ApiKeyMissing
    THEN Except(c, "APIKeyMissingError", AnyException, None)
    ELSE Issue(c, Request("forecast.json", location, FORECAST_DAYS, <<>>))

\* get_weather_data from its entry to its first request
EnterWeatherData(c, location) ==
    LET cache_key == _cache_key(<<K_weather, location>>)
    IN  IF Contains(_weather_cache, cache_key)
        THEN Hit(c, GetItem(_weather_cache, cache_key))
        ELSE IF ApiKeyMissing
        THEN Except(c, "APIKeyMissingError", AnyException, None)
        ELSE Issue(c, Request("forecast.json", location, FORECAST_DAYS, <<>>))

GetWeatherData(location) ==
    /\ call.status # "running"
    /\ "get_weather_data" \in workload
    /\ call' = EnterWeatherData(NewCall("get_weather_data", location, 0, <<>>), location)
    /\ UNCHANGED <<_api_key, caches, timer, today, default_zip, workload, others>>

RedirectTo(zip_code) ==
    IF zip_code # <<>>
    THEN <<"/", "?", "l", "o", "c", "a", "t", "i", "o", "n", "=">> \o zip_code
    ELSE <<"/">>

\* routes/forecast.py get_forecast
GetForecast(zip_arg, is_browser) ==
    /\ call.status # "running"
    /\ "get_forecast" \in workload
    /\ LET c == [NewCall("get_forecast", zip_arg, 0, <<>>) EXCEPT !.browser = is_browser]
           zip_code == IF zip_arg # <<>> THEN zip_arg ELSE default_zip
       IN  call' =
             IF is_browser
             THEN [c EXCEPT !.status = "done", !.at = timer,
                            !.response = [status |-> 302,
                                          body |-> [redirect |-> RedirectTo(zip_arg)]]]
             ELSE IF zip_code = <<>>
             THEN [c EXCEPT !.status = "done", !.at = timer,
                            !.response = [status |-> 400,
                                          body |-> [error |->
                                            "ZIP code is required and no default is configured"]]]
             ELSE EnterWeatherData([c EXCEPT !.op = "get_weather_data", !.q = zip_code],
                                   zip_code)
    /\ UNCHANGED <<_api_key, caches, timer, today, default_zip, workload, others>>

\* the bundle get_weather_data assembles
WeatherBundle(forecast_data, history_data) ==
    [location |-> Get(forecast_data, "location", EmptyDict),
     current  |-> Get(forecast_data, "current", EmptyDict),
     forecast |-> Get(forecast_data, "forecast", EmptyDict),
     alerts   |-> Get(forecast_data, "alerts", EmptyDict),
     history  |-> List(history_data)]

\* _get_history skipping nothing: what a history request returns is
\* appended whatever it is
HistoryKeepAll(history_data, r) ==
    IF r.exc = NoException THEN Append(history_data, r.value) ELSE history_data

\* _get_history: the history list after the request of one iteration
HistoryAppend(history_data, r) ==
    IF r.exc = NoException /\ Truthy(r.value)
    THEN Append(history_data, r.value)
    ELSE history_data

\* what the upstream does to a request of get_weather_data.  In a run of
\* get_bulk_weather the history requests after the first are answered with
\* data, and the first is answered with data or refused
WeatherOutcomes(c) ==
    IF c.via # "get_bulk_weather" \/ c.stage = 0 THEN Outcomes
    ELSE IF c.stage = 1 THEN {"ok", "http500"}
    ELSE {"ok"}

\* get_weather_data resumes with the response to its pending request
UpstreamWeatherData ==
    /\ call.status = "running"
    /\ call.op = "get_weather_data"
    /\ \E outcome \in WeatherOutcomes(call) :
        LET r == _make_request(call.req, outcome)
            c == Log(call, outcome)
            cache_key == _cache_key(<<K_weather, call.q>>)
            history_data == HistoryAppend(c.history_data, r)
            result == WeatherBundle(c.forecast_data, history_data)
        IN  IF call.stage = 0
            THEN /\ call' =
                      IF r.exc # NoException
                      THEN Except(c, r.exc, AnyException, None)
                      ELSE IF ~Truthy(r.value)
                      THEN Return(c, None)
                      ELSE [Issue(c, HistoryRequest(c.q, 1))
                                EXCEPT !.stage = 1, !.forecast_data = r.value]
                 /\ UNCHANGED _weather_cache
            ELSE IF r.exc \notin WeatherServiceErrors \cup {NoException}
            THEN /\ call' = Except(c, r.exc, AnyException, None)
                 /\ UNCHANGED _weather_cache
            ELSE IF call.stage < HISTORY_DAYS
            THEN /\ call' = [Issue(c, HistoryRequest(c.q, c.stage + 1))
                                EXCEPT !.stage = c.stage + 1,
                                       !.history_data = history_data]
                 /\ UNCHANGED _weather_cache
            ELSE /\ _weather_cache' = SetItem(_weather_cache, cache_key, result,
                                              WEATHER_CACHE_TTL, WEATHER_CACHE_MAXSIZE,
                                   Written(c))
                 /\ call' = Return(c, result)
    /\ UNCHANGED <<_api_key, _forecast_cache, _location_cache, _search_cache,
                   _hourly_cache, _current_cache, timer, today, default_zip, workload, others>>

-----------------------------------------------------------------------------
(* get_bulk_weather *)

\* the lists of locations get_bulk_weather is called with
BulkArgs == {<<>>, <<<<"a">>>>, <<<<"a">>, <<"b">>>>, <<<<"b">>, <<" ", "A", " ">>, <<"a">>>>}

GetBulkWeather(locations) ==
    /\ call.status # "running"
    /\ "get_bulk_weather" \in workload
    /\ call' = [NewCall("get_bulk_weather", <<>>, 0, <<>>)
                    EXCEPT !.locations = locations]
    /\ UNCHANGED <<_api_key, caches, timer, today, default_zip, workload, others>>

\* get_bulk_weather at the head of its loop: it calls get_weather_data for
\* the next location, or returns its results when there is none
BulkIteration ==
    /\ call.status = "running"
    /\ call.op = "get_bulk_weather"
    /\ LET i == Len(call.calls) + 1
       IN  call' =
             IF i > Len(call.locations)
             THEN [call EXCEPT !.status = "done", !.at = timer, !.hit = FALSE,
                               !.result = List(call.results)]
             ELSE LET location == call.locations[i]
                      c == [NewCall("get_weather_data", location, 0, <<>>)
                               EXCEPT !.via = "get_bulk_weather",
                                      !.locations = call.locations,
                                      !.results = call.results,
                                      !.returns = call.returns,
                                      !.calls = Append(call.calls, location)]
                  IN  EnterWeatherData(c, location)
    /\ UNCHANGED <<_api_key, caches, timer, today, default_zip, workload, others>>

-----------------------------------------------------------------------------
(* get_current_weather *)

GetCurrentWeather(location) ==
    /\ call.status # "running"
    /\ "get_current_weather" \in workload
    /\ LET c == NewCall("get_current_weather", location, 0, <<>>)
           cache_key == _cache_key(<<K_current, location>>)
       IN  call' =
             IF Contains(_current_cache, cache_key)
             THEN Hit(c, GetItem(_current_cache, cache_key))
             ELSE IF ApiKeyMissing
             THEN Except(c, "APIKeyMissingError", WeatherServiceErrors, None)
             ELSE Issue(c, Request("current.json", location, 0, <<>>))
    /\ UNCHANGED <<_api_key, caches, timer, today, default_zip, workload, others>>

UpstreamCurrentWeather ==
    /\ call.status = "running"
    /\ call.op = "get_current_weather"
    /\ \E outcome \in Outcomes :
        LET r == _make_request(call.req, outcome)
            c == Log(call, outcome)
            cache_key == _cache_key(<<K_current, call.q>>)
        IN  IF r.exc # NoException
            THEN /\ call' = Except(c, r.exc, WeatherServiceErrors, None)
                 /\ UNCHANGED _current_cache
            ELSE /\ _current_cache' =
                      IF Truthy(r.value)
                      THEN SetItem(_current_cache, cache_key, r.value,
                                   WEATHER_CACHE_TTL, WEATHER_CACHE_MAXSIZE,
                                   Written(c))
                      ELSE _current_cache
                 /\ call' = Return(c, r.value)
    /\ UNCHANGED <<_api_key, _weather_cache, _forecast_cache, _location_cache,
                   _search_cache, _hourly_cache, timer, today, default_zip, workload, others>>

-----------------------------------------------------------------------------
(* validate_location *)

Invalid == [ok |-> FALSE, info |-> None]

ValidateLocation(location) ==
    /\ call.status # "running"
    /\ "validate_location" \in workload
    /\ LET c == NewCall("validate_location", location, 0, <<>>)
           cache_key == _cache_key(<<K_validate, location>>)
       IN  call' =
             IF Contains(_location_cache, cache_key)
             THEN Hit(c, GetItem(_location_cache, cache_key))
             ELSE IF ApiKeyMissing
             THEN Except(c, "APIKeyMissingError", WeatherServiceErrors, Invalid)
             ELSE Issue(c, Request("current.json", location, 0, <<>>))
    /\ UNCHANGED <<_api_key, caches, timer, today, default_zip, workload, others>>

\* validate_location storing whatever it answers
ValidateStoreAlways(data) == TRUE

\* validate_location: "Cache only successful validations"
ValidateStore(data) == Truthy(data)

UpstreamValidateLocation ==
    /\ call.status = "running"
    /\ call.op = "validate_location"
    /\ \E outcome \in Outcomes :
        LET r == _make_request(call.req, outcome)
            c == Log(call, outcome)
            cache_key == _cache_key(<<K_validate, call.q>>)
            result == IF Truthy(r.value)
                      THEN [ok |-> TRUE, info |-> Get(r.value, "location", EmptyDict)]
                      ELSE Invalid
        IN  IF r.exc # NoException
            THEN /\ call' = Except(c, r.exc, WeatherServiceErrors, Invalid)
                 /\ UNCHANGED _location_cache
            ELSE /\ _location_cache' =
                      IF ValidateStore(r.value)
                      THEN SetItem(_location_cache, cache_key, result,
                                   LOCATION_CACHE_TTL, LOCATION_CACHE_MAXSIZE,
                                   Written(c))
                      ELSE _location_cache
                 /\ call' = Return(c, result)
    /\ UNCHANGED <<_api_key, _weather_cache, _forecast_cache, _search_cache,
                   _hourly_cache, _current_cache, timer, today, default_zip, workload, others>>

-----------------------------------------------------------------------------
(* search_locations *)

CommaSpace == <<",", " ">>

\* the SearchResult search_locations builds of one item of the answer
MakeSearchResult(item) ==
    LET name == Get(item, "name", <<>>)
        region == Get(item, "region", <<>>)
        country == Get(item, "country", <<>>)
    IN  [name |-> name, region |-> region, country |-> country,
         display |-> name \o CommaSpace \o region \o CommaSpace \o country,
         value |-> name]

\* search_locations taking a query of any length upstream
QueryNeverTooShort(query) == FALSE

\* search_locations: "if not query or len(query) < 2"; a query that is
\* missing is the empty string here
QueryTooShort(query) == query = <<>> \/ Len(query) < 2

SearchLocations(query, limit) ==
    /\ call.status # "running"
    /\ "search_locations" \in workload
    /\ LET c == NewCall("search_locations", query, limit, <<>>)
           cache_key == _cache_key(<<K_search, query, StrInt(limit)>>)
       IN  call' =
             IF QueryTooShort(query)
             THEN Return(c, List(<<>>))
             ELSE IF Contains(_search_cache, cache_key)
             THEN Hit(c, GetItem(_search_cache, cache_key))
             ELSE IF ApiKeyMissing
             THEN Except(c, "APIKeyMissingError", WeatherServiceErrors, List(<<>>))
             ELSE Issue(c, Request("search.json", query, 0, <<>>))
    /\ UNCHANGED <<_api_key, caches, timer, today, default_zip, workload, others>>

UpstreamSearchLocations ==
    /\ call.status = "running"
    /\ call.op = "search_locations"
    /\ \E outcome \in Outcomes :
        LET r == _make_request(call.req, outcome)
            c == Log(call, outcome)
            cache_key == _cache_key(<<K_search, call.q, StrInt(call.n)>>)
            items == SliceTo(r.value.list, call.n)
            results == List([i \in 1..Len(items) |-> MakeSearchResult(items[i])])
        IN  IF r.exc # NoException
            THEN /\ call' = Except(c, r.exc, WeatherServiceErrors, List(<<>>))
                 /\ UNCHANGED _search_cache
            ELSE IF ~Truthy(r.value)
            THEN /\ call' = Return(c, List(<<>>))
                 /\ UNCHANGED _search_cache
            ELSE /\ _search_cache' = SetItem(_search_cache, cache_key, results,
                                             SEARCH_CACHE_TTL, SEARCH_CACHE_MAXSIZE,
                                   Written(c))
                 /\ call' = Return(c, results)
    /\ UNCHANGED <<_api_key, _weather_cache, _forecast_cache, _location_cache,
                   _hourly_cache, _current_cache, timer, today, default_zip, workload, others>>

-----------------------------------------------------------------------------
(* get_detailed_forecast *)

GetDetailedForecast(location, days) ==
    /\ call.status # "running"
    /\ "get_detailed_forecast" \in workload
    /\ LET c == NewCall("get_detailed_forecast", location, days, <<>>)
           cache_key == _cache_key(<<K_detailed, location, StrInt(days)>>)
       IN  call' =
             IF Contains(_forecast_cache, cache_key)
             THEN Hit(c, GetItem(_forecast_cache, cache_key))
             ELSE IF ApiKeyMissing
             THEN Except(c, "APIKeyMissingError", WeatherServiceErrors, None)
             ELSE Issue(c, Request("forecast.json", location, days, <<>>))
    /\ UNCHANGED <<_api_key, caches, timer, today, default_zip, workload, others>>

\* the result get_detailed_forecast derives from the forecast it fetched
DetailedResult(data) ==
    LET forecastday == Get(Get(data, "forecast", EmptyDict), "forecastday", List(<<>>)).list
        astronomy == [i \in 1..Len(forecastday) |->
            [date |-> Get(forecastday[i], "date", None),
             astro |-> Get(forecastday[i], "astro", EmptyDict),
             moon_phase |-> Get(Get(forecastday[i], "astro", EmptyDict), "moon_phase", ""),
             moon_illumination |->
                 Get(Get(forecastday[i], "astro", EmptyDict), "moon_illumination", "")]]
        hourly == [i \in 1..Min(HOURLY_DAYS, Len(forecastday)) |->
            [date |-> Get(forecastday[i], "date", None),
             hours |-> Get(forecastday[i], "hour", List(<<>>))]]
    IN  [location |-> Get(data, "location", EmptyDict),
         current  |-> Get(data, "current", EmptyDict),
         forecast |-> Get(data, "forecast", EmptyDict),
         alerts   |-> Get(data, "alerts", EmptyDict),
         astronomy |-> List(astronomy),
         hourly   |-> List(hourly)]

UpstreamDetailedForecast ==
    /\ call.status = "running"
    /\ call.op = "get_detailed_forecast"
    /\ \E outcome \in Outcomes :
        LET r == _make_request(call.req, outcome)
            c == Log(call, outcome)
            cache_key == _cache_key(<<K_detailed, call.q, StrInt(call.n)>>)
            result == DetailedResult(r.value)
        IN  IF r.exc # NoException
            THEN /\ call' = Except(c, r.exc, WeatherServiceErrors, None)
                 /\ UNCHANGED _forecast_cache
            ELSE IF ~Truthy(r.value)
            THEN /\ call' = Return(c, None)
                 /\ UNCHANGED _forecast_cache
            ELSE /\ _forecast_cache' = SetItem(_forecast_cache, cache_key, result,
                                               WEATHER_CACHE_TTL, WEATHER_CACHE_MAXSIZE,
                                   Written(c))
                 /\ call' = Return(c, result)
    /\ UNCHANGED <<_api_key, _weather_cache, _location_cache, _search_cache,
                   _hourly_cache, _current_cache, timer, today, default_zip, workload, others>>

-----------------------------------------------------------------------------
(* get_hourly_forecast *)

\* get_hourly_forecast: "Choose appropriate endpoint based on date"
HourlyEndpoint(target_date, today_) ==
    IF DateGT(target_date, today_) THEN "forecast.json" ELSE "history.json"

GetHourlyForecast(location, date) ==
    /\ call.status # "running"
    /\ "get_hourly_forecast" \in workload
    /\ LET c == NewCall("get_hourly_forecast", location, 0, date)
           cache_key == _cache_key(<<K_hourly, location, date>>)
           parsed == Strptime(date)
           endpoint == HourlyEndpoint(parsed.date, today)
           caught == WeatherServiceErrors \cup {"ValueError"}
       IN  call' =
             IF Contains(_hourly_cache, cache_key)
             THEN Hit(c, GetItem(_hourly_cache, cache_key))
             ELSE IF ~parsed.ok
             THEN Except(c, "ValueError", caught, None)
             ELSE IF ApiKeyMissing
             THEN Except(c, "APIKeyMissingError", caught, None)
             ELSE Issue(c, Request(endpoint, location, 0, date))
    /\ UNCHANGED <<_api_key, caches, timer, today, default_zip, workload, others>>

\* the result get_hourly_forecast derives from the day it fetched
HourlyResult(data, date) ==
    LET forecast_days == Get(Get(data, "forecast", EmptyDict), "forecastday", List(<<>>)).list
        forecast_day == IF forecast_days # <<>> THEN forecast_days[1] ELSE EmptyDict
    IN  [location |-> Get(data, "location", EmptyDict),
         date |-> date,
         hourly |-> Get(forecast_day, "hour", List(<<>>)),
         day_summary |-> Get(forecast_day, "day", EmptyDict),
         astronomy |-> Get(forecast_day, "astro", EmptyDict)]

UpstreamHourlyForecast ==
    /\ call.status = "running"
    /\ call.op = "get_hourly_forecast"
    /\ \E outcome \in Outcomes :
        LET r == _make_request(call.req, outcome)
            c == Log(call, outcome)
            cache_key == _cache_key(<<K_hourly, call.q, call.date>>)
            result == HourlyResult(r.value, call.date)
            caught == WeatherServiceErrors \cup {"ValueError"}
        IN  IF r.exc # NoException
            THEN /\ call' = Except(c, r.exc, caught, None)
                 /\ UNCHANGED _hourly_cache
            ELSE IF ~Truthy(r.value)
            THEN /\ call' = Return(c, None)
                 /\ UNCHANGED _hourly_cache
            ELSE /\ _hourly_cache' = SetItem(_hourly_cache, cache_key, result,
                                             WEATHER_CACHE_TTL, WEATHER_CACHE_MAXSIZE,
                                   Written(c))
                 /\ call' = Return(c, result)
    /\ UNCHANGED <<_api_key, _weather_cache, _forecast_cache, _location_cache,
                   _search_cache, _current_cache, timer, today, default_zip, workload, others>>

-----------------------------------------------------------------------------
(* get_current_location_by_ip *)

AutoIp == <<"a", "u", "t", "o", ":", "i", "p">>

London == <<"L", "o", "n", "d", "o", "n">>

GetCurrentLocationByIp(ip) ==
    /\ call.status # "running"
    /\ "get_current_location_by_ip" \in workload
    /\ LET c == NewCall("get_current_location_by_ip", ip, 0, <<>>)
           query == IF ip # <<>> THEN ip ELSE AutoIp
       IN  call' =
             IF ApiKeyMissing
             THEN Except(c, "APIKeyMissingError", WeatherServiceErrors, None)
             ELSE Issue(c, Request("ip.json", query, 0, <<>>))
    /\ UNCHANGED <<_api_key, caches, timer, today, default_zip, workload, others>>

UpstreamCurrentLocationByIp ==
    /\ call.status = "running"
    /\ call.op = "get_current_location_by_ip"
    /\ \E outcome \in Outcomes :
        LET r == _make_request(call.req, outcome)
            c == Log(call, outcome)
            city == Get(r.value, "city", London)
        IN  call' =
              IF r.exc # NoException
              THEN Except(c, r.exc, WeatherServiceErrors, None)
              ELSE IF call.stage = 0
              THEN IF ~Truthy(r.value)
                   THEN Return(c, None)
                   ELSE [Issue(c, Request("current.json", city, 0, <<>>))
                            EXCEPT !.stage = 1, !.ip_data = r.value]
              ELSE Return(c, [user_info |-> c.ip_data, current_weather |-> r.value])
    /\ UNCHANGED <<_api_key, caches, timer, today, default_zip, workload, others>>

-----------------------------------------------------------------------------
(* The clocks *)

\* time passes on the monotonic clock
Tick ==
    /\ timer + TickSeconds <= MaxTimer
    /\ timer' = timer + TickSeconds
    /\ _weather_cache' = Forget(_weather_cache, timer')
    /\ _forecast_cache' = Forget(_forecast_cache, timer')
    /\ _location_cache' = Forget(_location_cache, timer')
    /\ _search_cache' = Forget(_search_cache, timer')
    /\ _hourly_cache' = Forget(_hourly_cache, timer')
    /\ _current_cache' = Forget(_current_cache, timer')
    /\ UNCHANGED <<_api_key, today, default_zip, workload, call, others>>

\* the operations that read the date from the wall clock
DateReaders == {"get_weather_data", "get_forecast", "get_bulk_weather",
                "get_hourly_forecast", "enrich_with_astronomy"}

\* midnight passes on the wall clock, in the runs in which the date is read
Midnight ==
    /\ workload \cap DateReaders # {}
    /\ today # DaysAfter(Today0, MaxMidnights)
    /\ today' = NextDay(today)
    /\ UNCHANGED <<_api_key, caches, timer, default_zip, workload, call, others>>

-----------------------------------------------------------------------------
(* The enrichment helpers: services/safety_features.py,                    *)
(* services/astronomy_features.py, examples/safety_features_implementation *)
(* They are functions of their arguments and of the wall clock.  A call of *)
(* one is a step that leaves in `call` the argument and what was returned. *)

\* a helper was called with arg and returned result
Helped(op, arg, result) ==
    [Idle EXCEPT !.op = op, !.via = op, !.status = "done",
                 !.arg = arg, !.result = result]

\* UV values are counted in tenths: 25 is the UV index 2.5
MaxUv == 120

UvValues == (0 - MaxUv)..MaxUv

\* the levels of get_uv_info, by their breakpoints in tenths
UvLevel(uv_value) ==
    IF uv_value <= 20 THEN "Low"
    ELSE IF uv_value <= 50 THEN "Moderate"
    ELSE IF uv_value <= 70 THEN "High"
    ELSE IF uv_value <= 100 THEN "Very High"
    ELSE "Extreme"

UvColor(level) ==
    CASE level = "Low" -> "#289500"
      [] level = "Moderate" -> "#F7E400"
      [] level = "High" -> "#F85900"
      [] level = "Very High" -> "#D8001D"
      [] level = "Extreme" -> "#6B49C8"

\* services/safety_features.py get_uv_info (the recommendation and the
\* icon go with the level as the color does)
get_uv_info(current_data) ==
    LET uv_value == Get(current_data, "uv", 0)
    IN  [value |-> uv_value, level |-> UvLevel(uv_value),
         color |-> UvColor(UvLevel(uv_value))]

\* UVIndexInfo.from_uv_value: the same levels, after "if uv_value < 0:
\* uv_value = 0"
from_uv_value(uv_value) ==
    LET clamped == IF uv_value < 0 THEN 0 ELSE uv_value
    IN  [value |-> clamped, level |-> UvLevel(clamped),
         color |-> UvColor(UvLevel(clamped))]

GetUvInfo(current_data) ==
    /\ call = Idle
    /\ call' = Helped("get_uv_info", current_data, get_uv_info(current_data))
    /\ UNCHANGED <<_api_key, caches, timer, today, default_zip, workload, others>>

FromUvValue(uv_value) ==
    /\ call = Idle
    /\ call' = Helped("from_uv_value", [uv |-> uv_value], from_uv_value(uv_value))
    /\ UNCHANGED <<_api_key, caches, timer, today, default_zip, workload, others>>

\* the largest EPA index the upstream is taken to send (the table ends at 6)
MaxAqi == 7

\* get_aqi_info with "Very Unhealthy" left out of its chain
AqiLevelFiveBands(aqi_value) ==
    IF aqi_value = 1 THEN "Good"
    ELSE IF aqi_value = 2 THEN "Moderate"
    ELSE IF aqi_value = 3 THEN "Unhealthy for Sensitive Groups"
    ELSE IF aqi_value = 4 THEN "Unhealthy"
    ELSE "Hazardous"

\* get_aqi_info: the if/elif chain over the EPA index
AqiLevel(aqi_value) ==
    IF aqi_value = 1 THEN "Good"
    ELSE IF aqi_value = 2 THEN "Moderate"
    ELSE IF aqi_value = 3 THEN "Unhealthy for Sensitive Groups"
    ELSE IF aqi_value = 4 THEN "Unhealthy"
    ELSE IF aqi_value = 5 THEN "Very Unhealthy"
    ELSE "Hazardous"

AqiColor(level) ==
    CASE level = "Good" -> "#00E400"
      [] level = "Moderate" -> "#FFFF00"
      [] level = "Unhealthy for Sensitive Groups" -> "#FF7E00"
      [] level = "Unhealthy" -> "#FF0000"
      [] level = "Very Unhealthy" -> "#8F3F97"
      [] level = "Hazardous" -> "#7E0023"

\* an empty dict that is read with get
NoFields == [k \in {} |-> 0]

\* services/safety_features.py get_aqi_info (the guidance and the icon go
\* with the level as the color does)
get_aqi_info(current_data) ==
    LET air_quality == Get(current_data, "air_quality", NoFields)
        aqi_value == Get(air_quality, "us-epa-index", 0)
    IN  IF aqi_value = 0 THEN None
        ELSE [value |-> aqi_value, level |-> AqiLevel(aqi_value),
              color |-> AqiColor(AqiLevel(aqi_value)),
              pm2_5 |-> Get(air_quality, "pm2_5", 0),
              pm10 |-> Get(air_quality, "pm10", 0)]

GetAqiInfo(current_data) ==
    /\ call = Idle
    /\ call' = Helped("get_aqi_info", current_data, get_aqi_info(current_data))
    /\ UNCHANGED <<_api_key, caches, timer, today, default_zip, workload, others>>

\* air_quality blocks: an EPA index and readings of PM2.5 and PM10 in
\* tenths, each of them there or not
AirQualities ==
    LET full == {("us-epa-index" :> i) @@ [pm2_5 |-> p, pm10 |-> q] :
                    i \in (0 - 1)..MaxAqi, p \in {84}, q \in {0, 120}}
    IN  {[k \in ks |-> f[k]] : f \in full,
                               ks \in SUBSET {"us-epa-index", "pm2_5", "pm10"}}

\* the current conditions get_aqi_info is called with
CurrentWithAqi ==
    {[uv |-> 10, air_quality |-> aq] : aq \in AirQualities} \cup {[uv |-> 10]}

\* datetimes are counted in hours.  An aware datetime is [t, aware |-> TRUE]
\* with t its instant; a naive one is [t, aware |-> FALSE] with t what the
\* clock on the wall of the server shows, ServerOffset hours ahead of the
\* instant
ServerOffset == 1

\* the alerts start and end within MaxHours hours of now
MaxHours == 2

TypeError == [raised |-> "TypeError"]

\* a <= b on datetimes: Python refuses to compare a naive datetime with an
\* aware one
DatetimeLE(a, b) ==
    IF a.aware # b.aware THEN TypeError ELSE [value |-> a.t <= b.t]

\* WeatherAlert.is_active at the instant now_
is_active(effective, expires, now_) ==
    LET now == IF effective.aware
               THEN [t |-> now_, aware |-> TRUE]
               ELSE [t |-> now_ + ServerOffset, aware |-> FALSE]
        first == DatetimeLE(effective, now)
        second == DatetimeLE(now, expires)
    IN  IF first = TypeError THEN TypeError
        ELSE IF ~first.value THEN [active |-> FALSE]
        ELSE IF second = TypeError THEN TypeError
        ELSE [active |-> second.value]

Datetimes == {[t |-> t, aware |-> a] : t \in (0 - MaxHours)..MaxHours, a \in BOOLEAN}

IsActive(effective, expires) ==
    /\ call = Idle
    /\ call' = Helped("is_active", [effective |-> effective, expires |-> expires],
                      is_active(effective, expires, 0))
    /\ UNCHANGED <<_api_key, caches, timer, today, default_zip, workload, others>>

\* the 'effective' or 'expires' field of the alert the API sends: missing,
\* a text that is no ISO-8601 timestamp, or a timestamp, with a zone offset
\* or without
TimestampFields ==
    {[kind |-> "missing"], [kind |-> "unparseable"]}
        \cup {[kind |-> "iso", dt |-> dt] : dt \in Datetimes}

\* datetime.now() without a zone, at the instant now_
NaiveNow(now_) == [t |-> now_ + ServerOffset, aware |-> FALSE]

\* WeatherAlert.from_api_data, "Parse timestamps": fromisoformat of the
\* field, and datetime.now() when it raises
ParseTimestamp(field, now_) ==
    IF field.kind = "iso" THEN field.dt ELSE NaiveNow(now_)

\* WeatherAlert.from_api_data, "Parse severity": the severity the API
\* sends names one of the four severities or none of them
AlertSeverityOf(severity_str) ==
    IF severity_str \in {"extreme", "severe", "moderate", "minor"}
    THEN severity_str
    ELSE "unknown"

\* WeatherAlert.from_api_data at the instant now_: the event, the severity
\* and the timestamps of the alert it constructs
from_api_data(alert_data, now_) ==
    [event |-> Get(alert_data, "event", "Unknown Event"),
     severity |-> AlertSeverityOf(Get(alert_data, "severity", "")),
     effective |-> ParseTimestamp(alert_data.effective, now_),
     expires |-> ParseTimestamp(alert_data.expires, now_)]

\* WeatherAlert.to_dict at the instant now_
to_dict(alert, now_) ==
    LET active == is_active(alert.effective, alert.expires, now_)
    IN  IF active = TypeError THEN TypeError
        ELSE [effective |-> alert.effective, expires |-> alert.expires,
              is_active |-> active.active]

\* an alert is constructed from what the API sent at the instant 0, and
\* is_active and to_dict are called on it at that instant or `later` hours
\* after
AlertFromApiData(effective, expires, later) ==
    /\ call = Idle
    /\ LET alert_data == [effective |-> effective, expires |-> expires]
           alert == from_api_data(alert_data, 0)
       IN  call' = Helped("WeatherAlert.from_api_data", alert_data,
                          [alert |-> alert,
                           is_active |-> is_active(alert.effective, alert.expires, later),
                           to_dict |-> to_dict(alert, later)])
    /\ UNCHANGED <<_api_key, caches, timer, today, default_zip, workload, others>>

\* AirQualityInfo.from_api_data: the if/elif chain over the EPA index, with
\* its else branch
AQILevelOf(epa_index) ==
    CASE epa_index = 1 -> "good"
      [] epa_index = 2 -> "moderate"
      [] epa_index = 3 -> "unhealthy_for_sensitive_groups"
      [] epa_index = 4 -> "unhealthy"
      [] epa_index = 5 -> "very_unhealthy"
      [] epa_index = 6 -> "hazardous"
      [] OTHER -> "unknown"

\* AirQualityInfo.from_api_data (the color, the messages and the icon go
\* with the level)
AirQualityInfo_from_api_data(air_quality_data) ==
    LET epa_index == Get(air_quality_data, "us-epa-index", 0)
    IN  [epa_index |-> IF epa_index \in 1..6 THEN epa_index ELSE 0,
         level |-> AQILevelOf(epa_index),
         pm2_5 |-> Get(air_quality_data, "pm2_5", None),
         pm10 |-> Get(air_quality_data, "pm10", None)]

\* SafetyWeatherData.from_weather_api_response at the instant now_
from_weather_api_response(weather_data, now_) ==
    LET current == Get(weather_data, "current", NoFields)
        alerts_data == Get(Get(weather_data, "alerts", NoFields), "alert", <<>>)
    IN  [uv_index |-> IF "uv" \in DOMAIN current
                      THEN from_uv_value(current.uv)
                      ELSE None,
         air_quality |-> IF "air_quality" \in DOMAIN current
                            /\ current.air_quality # NoFields
                         THEN AirQualityInfo_from_api_data(current.air_quality)
                         ELSE None,
         alerts |-> [i \in 1..Len(alerts_data) |-> from_api_data(alerts_data[i], now_)]]

\* the alerts block of a response: no alert, or one alert
AlertsBlocks ==
    {[alert |-> <<>>],
     [alert |-> <<[event |-> "Flood", severity |-> "severe",
                   effective |-> [kind |-> "iso", dt |-> [t |-> 0 - 1, aware |-> TRUE]],
                   expires |-> [kind |-> "iso", dt |-> [t |-> 1, aware |-> TRUE]]]>>]}

\* the responses of the API from_weather_api_response is called with: current
\* conditions with an air_quality block or without, an alerts block or none
SafetyResponses ==
    {[current |-> c, alerts |-> a] : c \in CurrentWithAqi, a \in AlertsBlocks}
        \cup {[current |-> c] : c \in CurrentWithAqi}
        \cup {[alerts |-> a] : a \in AlertsBlocks}

FromWeatherApiResponse(weather_data) ==
    /\ call = Idle
    /\ call' = Helped("from_weather_api_response", weather_data,
                      from_weather_api_response(weather_data, 0))
    /\ UNCHANGED <<_api_key, caches, timer, today, default_zip, workload, others>>

\* get_safety_summary, "Check UV": the priority of a UV level
UvPriority(level) ==
    CASE level = "Extreme" -> 3
      [] level = "Very High" -> 2
      [] level = "High" -> 1
      [] OTHER -> 0

\* get_safety_summary, "Check Air Quality": the priority of an AQI level
AqiPriority(level) ==
    CASE level \in {"hazardous", "very_unhealthy"} -> 3
      [] level = "unhealthy" -> 2
      [] level = "unhealthy_for_sensitive_groups" -> 1
      [] OTHER -> 0

\* get_safety_summary, "Check Alerts": the priority of a severity
SeverityPriority(severity) ==
    CASE severity \in {"extreme", "severe"} -> 3
      [] severity = "moderate" -> 2
      [] OTHER -> 0

\* the loop over the active alerts: the priority after them
RECURSIVE AlertsPriority(_, _)
AlertsPriority(active_alerts, priority) ==
    IF active_alerts = <<>> THEN priority
    ELSE AlertsPriority(Tail(active_alerts),
                        Max(priority, SeverityPriority(Head(active_alerts).severity)))

\* SafetyWeatherData.get_safety_summary at the instant now_.  A concern is
\* kept as the source it comes from and what it names
get_safety_summary(self, now_) ==
    LET uv == IF self.uv_index # None THEN UvPriority(self.uv_index.level) ELSE 0
        aqi == IF self.air_quality # None THEN AqiPriority(self.air_quality.level) ELSE 0
        IsActiveAlert(alert) == is_active(alert.effective, alert.expires, now_)
        raises == \E i \in 1..Len(self.alerts) : IsActiveAlert(self.alerts[i]) = TypeError
        Active(alert) == IsActiveAlert(alert).active
        active_alerts == SelectSeq(self.alerts, Active)
        concerns ==
            (IF uv > 0 THEN <<[of |-> "uv", what |-> self.uv_index.level]>> ELSE <<>>)
            \o (IF aqi > 0 THEN <<[of |-> "aqi", what |-> self.air_quality.level]>> ELSE <<>>)
            \o [i \in 1..Len(active_alerts) |->
                    [of |-> active_alerts[i].event, what |-> active_alerts[i].severity]]
        priority == AlertsPriority(active_alerts, Max(Max(0, uv), aqi))
    IN  IF raises THEN TypeError
        ELSE [priority |-> priority,
              priority_label |-> <<"Safe", "Caution", "Warning", "Danger">>[priority + 1],
              concerns |-> concerns,
              has_concerns |-> Len(concerns) > 0,
              active_alerts_count |-> Len(active_alerts)]

\* the alerts of a SafetyWeatherData: of each severity, in effect, expired,
\* or in effect with an 'expires' that did not parse
SummaryAlerts ==
    LET aware(t) == [kind |-> "iso", dt |-> [t |-> t, aware |-> TRUE]]
        windows == {[effective |-> aware(0 - 1), expires |-> aware(1)],
                    [effective |-> aware(0 - 2), expires |-> aware(0 - 1)],
                    [effective |-> aware(0 - 1), expires |-> [kind |-> "unparseable"]]}
    IN  {from_api_data([event |-> "Flood", severity |-> sev,
                        effective |-> w.effective, expires |-> w.expires], 0) :
            sev \in {"extreme", "severe", "moderate", "minor", ""}, w \in windows}

\* the SafetyWeatherData objects get_safety_summary is called on
SafetyDatas ==
    [uv_index : {None} \cup {from_uv_value(v) : v \in {10, 60, 80, 110}},
     air_quality : {None} \cup {AirQualityInfo_from_api_data("us-epa-index" :> i) :
                                    i \in 0..MaxAqi},
     alerts : {<<>>} \cup {<<a>> : a \in SummaryAlerts}
                \cup {<<a, b>> : a \in SummaryAlerts, b \in SummaryAlerts}]

GetSafetySummary(self) ==
    /\ call = Idle
    /\ call' = Helped("get_safety_summary", self, get_safety_summary(self, 0))
    /\ UNCHANGED <<_api_key, caches, timer, today, default_zip, workload, others>>

\* a str where None may be returned instead
Str(s) == [str |-> s]

\* datetime.strptime(s, "%I:%M %p"): the hour is 1-12 in one or two digits,
\* the minute 0-59 in one or two digits, then whitespace and AM or PM in
\* either case, and nothing more.  The time of day comes in minutes
NoTime == [ok |-> FALSE, minute |-> 0]

IsHourText(t) ==
    \/ Len(t) = 2 /\ t[1] = "1" /\ t[2] \in {"0", "1", "2"}
    \/ Len(t) = 2 /\ t[1] = "0" /\ t[2] \in {"1", "2", "3", "4", "5", "6", "7", "8", "9"}
    \/ Len(t) = 1 /\ t[1] \in {"1", "2", "3", "4", "5", "6", "7", "8", "9"}

IsMinuteText(t) ==
    \/ Len(t) = 2 /\ t[1] \in {"0", "1", "2", "3", "4", "5"} /\ IsDigit(t[2])
    \/ Len(t) = 1 /\ IsDigit(t[1])

IsMeridiem(t) ==
    Len(t) = 2 /\ t[1] \in {"A", "a", "P", "p"} /\ t[2] \in {"M", "m"}

StrptimeClock(s) ==
    LET splits == {<<i, j, k>> \in (1..Len(s)) \X (1..Len(s)) \X (1..Len(s)) :
                      /\ i < j /\ j < k /\ k = Len(s) - 1
                      /\ s[i] = ":"
                      /\ IsHourText(SubSeq(s, 1, i - 1))
                      /\ IsMinuteText(SubSeq(s, i + 1, j - 1))
                      /\ \A x \in j..(k - 1) : IsSpace(s[x])
                      /\ IsMeridiem(SubSeq(s, k, Len(s)))}
    IN  IF splits = {} THEN NoTime
        ELSE LET sp == CHOOSE x \in splits : TRUE
                 hour == NatOf(SubSeq(s, 1, sp[1] - 1))
                 minute == NatOf(SubSeq(s, sp[1] + 1, sp[2] - 1))
                 pm == s[sp[3]] \in {"P", "p"}
                 hour24 == IF pm THEN (IF hour = 12 THEN 12 ELSE hour + 12)
                           ELSE (IF hour = 12 THEN 0 ELSE hour)
             IN  [ok |-> TRUE, minute |-> hour24 * 60 + minute]

\* calculate_daylight_duration leaving a negative duration as it is
KeepNegative(seconds) == seconds

\* calculate_daylight_duration: "if duration.total_seconds() < 0: duration =
\* timedelta(days=1) + duration"
AcrossMidnight(seconds) == IF seconds < 0 THEN 86400 + seconds ELSE seconds

\* services/astronomy_features.py calculate_daylight_duration
calculate_daylight_duration(sunrise, sunset) ==
    IF sunrise = <<>> \/ sunset = <<>> THEN None
    ELSE LET sunrise_time == StrptimeClock(sunrise)
             sunset_time == StrptimeClock(sunset)
             total_seconds == AcrossMidnight((sunset_time.minute - sunrise_time.minute) * 60)
             hours == total_seconds \div 3600
             minutes == (total_seconds % 3600) \div 60
         IN  IF ~sunrise_time.ok \/ ~sunset_time.ok THEN None
             ELSE Str(StrInt(hours) \o <<"h", " ">> \o StrInt(minutes) \o <<"m">>)

\* the minutes past the hour of the clock strings
ClockMinutes == {0, 30, 45}

Meridiems == {<<"A", "M">>, <<"P", "M">>}

\* the minute of the day of hour:minute AM or PM on the 12-hour clock
MinuteOfDay(hour, minute, meridiem) ==
    ((hour % 12) + (IF meridiem = <<"P", "M">> THEN 12 ELSE 0)) * 60 + minute

\* well-formed 12-hour clock strings "HH:MM AM", each with the minute of
\* the day it stands for
ClockStrings ==
    {[text |-> ZeroPad(StrNat(h), 2) \o <<":">> \o ZeroPad(StrNat(m), 2) \o <<" ">> \o p,
      minute |-> MinuteOfDay(h, m, p)] : h \in 1..12, m \in ClockMinutes, p \in Meridiems}

\* well-formed strings in other dress: one digit, lower case, two spaces
OtherClockStrings ==
    {[text |-> <<"6", ":", "3", "0", " ", "A", "M">>, minute |-> 390],
     [text |-> <<"0", "5", ":", "4", "5", " ", "p", "m">>, minute |-> 1065],
     [text |-> <<"1", "2", ":", "5", " ", " ", "P", "M">>, minute |-> 725]}

\* strings that are no 12-hour clock time, the empty one among them; they
\* stand for no minute of the day
MalformedClockStrings ==
    {[text |-> t, minute |-> 0 - 1] :
        t \in {<<>>,
               <<"1", "3", ":", "0", "0", " ", "P", "M">>,
               <<"0", "0", ":", "3", "0", " ", "A", "M">>,
               <<"0", "6", ":", "6", "0", " ", "A", "M">>,
               <<"0", "6", ":", "3", "0">>,
               <<"0", "6", ":", "3", "0", "A", "M">>,
               <<"0", "6", ":", "3", "0", " ", "A", "M", " ">>,
               <<"0", "6", "3", "0", " ", "A", "M">>,
               <<"N", "o", " ", "s", "u", "n">>}}

ClockInputs == ClockStrings \cup OtherClockStrings \cup MalformedClockStrings

CalculateDaylightDuration(sunrise, sunset) ==
    /\ call = Idle
    /\ call' = Helped("calculate_daylight_duration",
                      [sunrise |-> sunrise, sunset |-> sunset],
                      calculate_daylight_duration(sunrise.text, sunset.text))
    /\ UNCHANGED <<_api_key, caches, timer, today, default_zip, workload, others>>

\* d[key] = value on a dict
SetItemDict(d, key, value) ==
    [k \in DOMAIN d \cup {key} |-> IF k = key THEN value ELSE d[k]]

\* process_astronomy_day: the fields of the sun; the fields of the moon are
\* copied from the astro block as sunrise and sunset are
process_astronomy_day(day_data, is_current_day) ==
    LET astro == Get(day_data, "astro", EmptyDict)
        sunrise == Get(astro, "sunrise", <<>>)
        sunset == Get(astro, "sunset", <<>>)
    IN  [date |-> Get(day_data, "date", <<>>),
         is_current_day |-> is_current_day,
         sunrise |-> sunrise,
         sunset |-> sunset,
         daylight_duration |-> calculate_daylight_duration(sunrise, sunset)]

\* the loop of get_astronomy_data over forecastdays; today_ is the date the
\* call read from the wall clock
RECURSIVE AstronomyOfDays(_, _, _)
AstronomyOfDays(forecastdays, include_current_day, today_) ==
    IF forecastdays = <<>> THEN <<>>
    ELSE LET day_data == Head(forecastdays)
             rest == AstronomyOfDays(Tail(forecastdays), include_current_day, today_)
             day_date == Strptime(Get(day_data, "date", <<>>))
             is_current_day == day_date.date = today_
         IN  IF ~day_date.ok THEN rest
             ELSE IF is_current_day /\ ~include_current_day THEN rest
             ELSE <<process_astronomy_day(day_data, is_current_day)>> \o rest

\* services/astronomy_features.py get_astronomy_data
get_astronomy_data(weather_data, include_current_day, today_) ==
    IF ~Truthy(weather_data) \/ "forecast" \notin DOMAIN weather_data THEN <<>>
    ELSE LET forecast == weather_data.forecast
         IN  IF ~Truthy(forecast) \/ "forecastday" \notin DOMAIN forecast THEN <<>>
             ELSE LET forecastdays == forecast.forecastday
                  IN  IF ~Truthy(forecastdays) THEN <<>>
                      ELSE AstronomyOfDays(forecastdays.list, include_current_day, today_)

\* enrich_with_astronomy: "weather_data['astronomy_forecast'] =
\* all_astronomy[:5]"
FirstFive(all_astronomy) ==
    SubSeq(all_astronomy, 1, IF Len(all_astronomy) < 5 THEN Len(all_astronomy) ELSE 5)

\* services/astronomy_features.py enrich_with_astronomy; its two calls of
\* get_astronomy_data read the wall clock one after the other
enrich_with_astronomy(weather_data, today_1, today_2) ==
    IF ~Truthy(weather_data) THEN None
    ELSE LET current_astronomy == get_astronomy_data(weather_data, TRUE, today_1)
             with_info == IF current_astronomy # <<>>
                          THEN SetItemDict(weather_data, "astronomy_info",
                                           current_astronomy[1])
                          ELSE weather_data
             all_astronomy == get_astronomy_data(with_info, FALSE, today_2)
         IN  SetItemDict(with_info, "astronomy_forecast", FirstFive(all_astronomy))

\* the longest forecast handed to enrich_with_astronomy, in days
MaxForecastDays == 7

\* a forecast day of the upstream answer with the times of the sun
AstronomyDay(date) ==
    [date |-> date,
     astro |-> [sunrise |-> <<"0", "6", ":", "3", "0", " ", "A", "M">>,
                sunset |-> <<"0", "5", ":", "4", "5", " ", "P", "M">>]]

\* n consecutive forecast days from the date start on
ForecastDays(start, n) == [i \in 1..n |-> AstronomyDay(Strftime(DaysAfter(start, i - 1)))]

\* the forecasts: up to MaxForecastDays days that begin the day before the
\* server's date, on it or the day after it (the days are those of the
\* location's time zone, and a bundle may come from a cache), alone or
\* after a day whose date is no date
Forecasts ==
    LET dated == {ForecastDays(start, n) :
                    start \in {PrevDay(Today0), Today0, NextDay(Today0)},
                    n \in 0..MaxForecastDays}
    IN  dated \cup {<<AstronomyDay(<<"s", "o", "o", "n">>)>> \o days : days \in dated}

\* the weather data handed to enrich_with_astronomy: None, a bundle with no
\* forecast, and bundles with each of the forecasts
AstronomyInputs ==
    {None, [location |-> [name |-> "Test"], current |-> [temp_c |-> 20]]}
    \cup {[location |-> [name |-> "Test"], current |-> [temp_c |-> 20],
           forecast |-> [forecastday |-> List(days)]] : days \in Forecasts}

\* enrich_with_astronomy is called; midnight may pass between its two reads
\* of the wall clock
EnrichWithAstronomy(weather_data, midnight) ==
    /\ call = Idle
    /\ today' = IF midnight THEN NextDay(today) ELSE today
    /\ call' = Helped("enrich_with_astronomy",
                      [weather_data |-> weather_data, today |-> today],
                      enrich_with_astronomy(weather_data, today, today'))
    /\ UNCHANGED <<_api_key, caches, timer, default_zip, workload, others>>

\* the current conditions get_uv_info is called with: a UV value, or none
CurrentWithUv == {[uv |-> v] : v \in UvValues} \cup {[temp_c |-> "20"]}

\* the colour get_alerts_info gives a severity
AlertColor(severity) ==
    CASE severity = <<"e", "x", "t", "r", "e", "m", "e">> -> "#D8001D"
      [] severity = <<"s", "e", "v", "e", "r", "e">> -> "#F85900"
      [] severity = <<"m", "o", "d", "e", "r", "a", "t", "e">> -> "#F7E400"
      [] OTHER -> "#289500"

\* services/safety_features.py get_alerts_info (the icon goes with the
\* severity as the color does; areas, description, instruction, effective
\* and expires are copied as event is)
get_alerts_info(alerts_data) ==
    LET alert_list == Get(alerts_data, "alert", List(<<>>))
    IN  IF ~Truthy(alert_list) THEN List(<<>>)
        ELSE List([i \in 1..Len(alert_list.list) |->
                LET alert == alert_list.list[i]
                    severity == Lower(Get(alert, "severity", <<>>))
                IN  [headline |-> Get(alert, "headline", "Weather Alert"),
                     event |-> Get(alert, "event", <<>>),
                     severity |-> Title(severity),
                     urgency |-> Title(Get(alert, "urgency", <<>>)),
                     color |-> AlertColor(severity)]])

\* services/safety_features.py enrich_weather_data: the three keys are set
\* in the dict it is handed, and that dict is returned
enrich_weather_data(weather_data) ==
    IF ~Truthy(weather_data) THEN weather_data
    ELSE LET current == Get(weather_data, "current", EmptyDict)
             alerts == Get(weather_data, "alerts", EmptyDict)
             with_uv == SetItemDict(weather_data, "uv_info", get_uv_info(current))
             with_aqi == SetItemDict(with_uv, "aqi_info", get_aqi_info(current))
         IN  SetItemDict(with_aqi, "alerts_info", get_alerts_info(alerts))

\* The caller of get_weather_data passes the dict it was returned to an
\* enrichment function.  That dict is the object get_weather_data stored in
\* _weather_cache ("self._weather_cache[cache_key] = result; return
\* result") or returned from it ("return self._weather_cache[cache_key]"):
\* nothing is copied.  While the cache holds the object, the keys the
\* function sets in it are set in the cached value
Enrich(function) ==
    /\ function \in workload
    /\ call.op = "get_weather_data" /\ call.via = "get_weather_data"
    /\ call.status = "done"
    /\ Truthy(call.result)
    /\ LET cache_key == _cache_key(<<K_weather, call.q>>)
           enriched == IF function = "enrich_weather_data"
                       THEN enrich_weather_data(call.result)
                       ELSE enrich_with_astronomy(call.result, today, today)
           held == /\ cache_key \in DOMAIN _weather_cache
                   /\ _weather_cache[cache_key].value = call.result
       IN  /\ call' = [Helped(function, [weather_data |-> call.result], enriched)
                           EXCEPT !.q = call.q]
           /\ _weather_cache' =
                 IF held THEN [_weather_cache EXCEPT ![cache_key].value = enriched]
                 ELSE _weather_cache
    /\ UNCHANGED <<_api_key, _forecast_cache, _location_cache, _search_cache,
                   _hourly_cache, _current_cache, timer, today, default_zip, workload, others>>

-----------------------------------------------------------------------------
(* _make_request, response by response.  requests.get either fails in the  *)
(* transport or returns a response with a status and a body; redirects     *)
(* that name a location are followed by the library and do not show.       *)

\* statuses of the response requests.get returns
HttpStatuses == {200, 204, 304, 400, 404, 500}

\* the body of a response: a JSON document or some other text
Bodies == {"json", "text"}

\* requests.get raised: no response
NoReply == [status |-> 0, body |-> "none"]

Replies == {NoReply} \cup [status : HttpStatuses, body : Bodies]

\* Response.raise_for_status raises HTTPError for the statuses 400 to 599
raise_for_status(response) == 400 <= response.status /\ response.status < 600

\* what Response.json raises for a body that is no JSON: its JSONDecodeError
\* is a RequestException in requests 2.27 and later, a ValueError before
JsonErrors == {"RequestException", "ValueError"}

\* Response.json of a JSON body
Parsed(response) == [json |-> TRUE, status |-> response.status]

\* _make_request(endpoint, params) with api_key configured or not, reply
\* what requests.get comes to: the number of HTTP GETs issued, the key sent
\* in params, and what is returned or raised
make_request(api_key, reply, json_error) ==
    IF api_key = NoKey
    THEN [gets |-> 0, key |-> NoKey, r |-> Raised("APIKeyMissingError")]
    ELSE LET exc == IF reply = NoReply THEN "RequestException"
                    ELSE IF raise_for_status(reply) THEN "HTTPError"
                    ELSE IF reply.body # "json" THEN json_error
                    ELSE NoException
         IN  [gets |-> 1, key |-> api_key,
              r |-> CASE exc = NoException -> Returned(Parsed(reply))
                      [] exc = "HTTPError" ->
                            IF reply.status = 400 THEN Returned(None)
                            ELSE Raised("APIRequestError")
                      [] exc = "RequestException" -> Raised("APIRequestError")
                      [] OTHER -> Raised(exc)]

MakeRequest(api_key, reply, json_error) ==
    /\ call = Idle
    /\ call' = Helped("_make_request",
                      [api_key |-> api_key, reply |-> reply],
                      make_request(api_key, reply, json_error))
    /\ UNCHANGED <<_api_key, caches, timer, today, default_zip, workload, others>>

-----------------------------------------------------------------------------
(* Request threads.  The web server hands each request to a thread of its  *)
(* own, and the threads share the provider and its caches.  A thread runs  *)
(* one cached operation, a step of it at a time: the membership test, the  *)
(* read of the cache, each request, the write to the cache.  The caches    *)
(* are cachetools.TTLCache objects used without a lock.                    *)

Threads == {1, 2}

\* the operations the threads run
ThreadOps == {"get_weather_data", "validate_location", "search_locations"}

\* a thread with no request to serve.  For the record a thread keeps what
\* its membership test found: the key (found) or no key (missed)
NoThread == [pc |-> "idle", c |-> Idle, pending |-> None,
             found |-> FALSE, missed |-> FALSE]

NoThreads == [t \in Threads |-> NoThread]

\* the arguments the threads pass: they make one cache key
ThreadArgs == {<<" ", "a">>, <<" ", "A">>}

\* the cache an operation uses, as it is now
CacheOf(op) ==
    CASE op = "get_weather_data" -> _weather_cache
      [] op = "get_current_weather" -> _current_cache
      [] op = "validate_location" -> _location_cache
      [] op = "search_locations" -> _search_cache
      [] op = "get_detailed_forecast" -> _forecast_cache
      [] op = "get_hourly_forecast" -> _hourly_cache

TtlOf(op) ==
    CASE op = "validate_location" -> LOCATION_CACHE_TTL
      [] op = "search_locations" -> SEARCH_CACHE_TTL
      [] OTHER -> WEATHER_CACHE_TTL

\* a long time passes on the monotonic clock with no call made: from a
\* tick on, the time to live of a cache the run uses, less one tick
Sleep(op) ==
    /\ op \in workload
    /\ call.status # "running"
    /\ TtlOf(op) > TickSeconds
    /\ timer <= MaxTimer /\ timer % TickSeconds = 0
    /\ timer' = timer + TtlOf(op) - TickSeconds
    /\ _weather_cache' = Forget(_weather_cache, timer')
    /\ _forecast_cache' = Forget(_forecast_cache, timer')
    /\ _location_cache' = Forget(_location_cache, timer')
    /\ _search_cache' = Forget(_search_cache, timer')
    /\ _hourly_cache' = Forget(_hourly_cache, timer')
    /\ _current_cache' = Forget(_current_cache, timer')
    /\ UNCHANGED <<_api_key, today, default_zip, workload, call, others>>

MaxsizeOf(op) ==
    CASE op = "get_weather_data" -> WEATHER_CACHE_MAXSIZE
      [] op = "validate_location" -> LOCATION_CACHE_MAXSIZE
      [] op = "search_locations" -> SEARCH_CACHE_MAXSIZE

\* cache_key of the call c
KeyOf(c) ==
    CASE c.op = "get_weather_data" -> _cache_key(<<K_weather, c.q>>)
      [] c.op = "get_current_weather" -> _cache_key(<<K_current, c.q>>)
      [] c.op = "validate_location" -> _cache_key(<<K_validate, c.q>>)
      [] c.op = "search_locations" -> _cache_key(<<K_search, c.q, StrInt(c.n)>>)
      [] c.op = "get_detailed_forecast" -> _cache_key(<<K_detailed, c.q, StrInt(c.n)>>)
      [] c.op = "get_hourly_forecast" -> _cache_key(<<K_hourly, c.q, c.date>>)

\* the exceptions the except clauses of the operation catch: "except
\* Exception" in get_weather_data, "except WeatherServiceError" in the two
\* others
CaughtBy(op) ==
    IF op = "get_weather_data" THEN AnyException ELSE WeatherServiceErrors

\* what the operation returns from its except clauses
NoDataOf(op) ==
    CASE op = "get_weather_data" -> None
      [] op = "validate_location" -> Invalid
      [] op = "search_locations" -> List(<<>>)

\* the request the operation makes first
FirstRequest(c) ==
    CASE c.op = "get_weather_data" -> Request("forecast.json", c.q, FORECAST_DAYS, <<>>)
      [] c.op = "validate_location" -> Request("current.json", c.q, 0, <<>>)
      [] c.op = "search_locations" -> Request("search.json", c.q, 0, <<>>)

\* the thread goes on in the call c at pc; pending is the value it is about
\* to store in the cache
Goes(th, pc, c, pending) == [th EXCEPT !.pc = pc, !.c = c, !.pending = pending]

\* the thread returns from the call, or an exception leaves the call
Ends(th, c) == Goes(th, "done", c, None)

\* a request comes in and the thread enters the operation
ThreadInvoke(t, q) ==
    /\ threads[t].pc = "idle"
    /\ \E op \in workload \cap ThreadOps :
          LET c == NewCall(op, q, 10, <<>>)
          IN  threads' = [threads EXCEPT ![t] =
                IF op = "search_locations" /\ QueryTooShort(q)
                THEN Ends(@, Return(c, List(<<>>)))
                ELSE Goes(@, "test", c, None)]
    /\ UNCHANGED <<_api_key, caches, timer, today, default_zip, workload, call,
                   writes, _weather_service, stream>>

\* "if cache_key in self._cache:" and, when it is not, the operation up to
\* its first request
ThreadTest(t) ==
    /\ threads[t].pc = "test"
    /\ LET c == threads[t].c
       IN  threads' = [threads EXCEPT ![t] =
             IF Contains(CacheOf(c.op), KeyOf(c))
             THEN Goes([@ EXCEPT !.found = TRUE], "read", c, None)
             ELSE IF ApiKeyMissing
             THEN Ends([@ EXCEPT !.missed = TRUE],
                       Except(c, "APIKeyMissingError", CaughtBy(c.op), NoDataOf(c.op)))
             ELSE Goes([@ EXCEPT !.missed = TRUE], "wait", Issue(c, FirstRequest(c)), None)]
    /\ UNCHANGED <<_api_key, caches, timer, today, default_zip, workload, call,
                   writes, _weather_service, stream>>

\* "return self._cache[cache_key]", outside the try of the operation:
\* TTLCache.__getitem__ raises KeyError for a key that is not stored or
\* whose entry has expired
ThreadRead(t) ==
    /\ threads[t].pc = "read"
    /\ LET c == threads[t].c
       IN  threads' = [threads EXCEPT ![t] =
             IF Contains(CacheOf(c.op), KeyOf(c))
             THEN Ends(@, Hit(c, GetItem(CacheOf(c.op), KeyOf(c))))
             ELSE Ends(@, Escape(c))]
    /\ UNCHANGED <<_api_key, caches, timer, today, default_zip, workload, call,
                   writes, _weather_service, stream>>

\* what the upstream does to a request of a thread: the history requests
\* are answered with data
ThreadOutcomes(c) ==
    IF c.op = "get_weather_data" /\ c.stage > 0 THEN {"ok"} ELSE Outcomes

\* the operation of thread th resumes with the response to its request and
\* runs to its next request, to its write to the cache or to its return
Resume(th, outcome) ==
    LET r == _make_request(th.c.req, outcome)
        c == Log(th.c, outcome)
        op == c.op
        history_data == HistoryAppend(c.history_data, r)
        items == SliceTo(r.value.list, c.n)
    IN  IF op = "get_weather_data" /\ c.stage > 0
        THEN IF r.exc \notin WeatherServiceErrors \cup {NoException}
             THEN Ends(th, Except(c, r.exc, AnyException, None))
             ELSE IF c.stage < HISTORY_DAYS
             THEN Goes(th, "wait",
                       [Issue(c, HistoryRequest(c.q, c.stage + 1))
                           EXCEPT !.stage = c.stage + 1, !.history_data = history_data],
                       None)
             ELSE Goes(th, "store", c, WeatherBundle(c.forecast_data, history_data))
        ELSE IF r.exc # NoException
        THEN Ends(th, Except(c, r.exc, CaughtBy(op), NoDataOf(op)))
        ELSE IF ~Truthy(r.value)
        THEN Ends(th, Return(c, NoDataOf(op)))
        ELSE IF op = "get_weather_data"
        THEN Goes(th, "wait",
                  [Issue(c, HistoryRequest(c.q, 1))
                      EXCEPT !.stage = 1, !.forecast_data = r.value],
                  None)
        ELSE IF op = "validate_location"
        THEN Goes(th, "store", c,
                  [ok |-> TRUE, info |-> Get(r.value, "location", EmptyDict)])
        ELSE Goes(th, "store", c,
                  List([i \in 1..Len(items) |-> MakeSearchResult(items[i])]))

ThreadUpstream(t) ==
    /\ threads[t].pc = "wait"
    /\ \E outcome \in ThreadOutcomes(threads[t].c) :
          threads' = [threads EXCEPT ![t] = Resume(@, outcome)]
    /\ UNCHANGED <<_api_key, caches, timer, today, default_zip, workload, call,
                   writes, _weather_service, stream>>

\* another thread is inside "self._cache[cache_key] = result" for the key
\* of c, which the cache did not hold
WriteUnderWay(t, c) ==
    /\ ~Contains(CacheOf(c.op), KeyOf(c))
    /\ \E u \in Threads \ {t} :
          /\ threads[u].pc = "storing"
          /\ KeyOf(threads[u].c) = KeyOf(c)

\* "self._cache[cache_key] = result" begins.  TTLCache.__setitem__ is many
\* steps on the dicts and the links inside the cache, and no lock is held:
\* a thread that enters while another is half way through storing the same
\* new key finds the key in one of them and not yet in the other, and an
\* exception of the lookup (KeyError here) is raised, or it finds them in
\* step and goes on
ThreadStore(t) ==
    /\ threads[t].pc = "store"
    /\ LET c == threads[t].c
       IN  \E raced \in {FALSE} \cup {WriteUnderWay(t, c)} :
             threads' = [threads EXCEPT ![t] =
               IF raced
               THEN Ends(@, Except(c, "KeyError", CaughtBy(c.op), NoDataOf(c.op)))
               ELSE Goes(@, "storing", c, @.pending)]
    /\ UNCHANGED <<_api_key, caches, timer, today, default_zip, workload, call,
                   writes, _weather_service, stream>>

\* "self._cache[cache_key] = result" is done, and "return result"
ThreadStored(t) ==
    /\ threads[t].pc = "storing"
    /\ LET c == threads[t].c
           stored == SetItem(CacheOf(c.op), KeyOf(c), threads[t].pending,
                             TtlOf(c.op), MaxsizeOf(c.op), Written(c) \o <<t>>)
       IN  /\ threads' = [threads EXCEPT ![t] = Ends(@, Return(c, @.pending))]
           /\ _weather_cache' =
                 IF c.op = "get_weather_data" THEN stored ELSE _weather_cache
           /\ _location_cache' =
                 IF c.op = "validate_location" THEN stored ELSE _location_cache
           /\ _search_cache' =
                 IF c.op = "search_locations" THEN stored ELSE _search_cache
    /\ writes' = Append(writes, t)
    /\ UNCHANGED <<_api_key, _forecast_cache, _hourly_cache, _current_cache,
                   timer, today, default_zip, workload, call, _weather_service, stream>>

-----------------------------------------------------------------------------
(* routes/forecast.py get_weather_service, called by the request threads:  *)
(*     global _weather_service                                             *)
(*     if _weather_service is None:                                        *)
(*         _weather_service = WeatherAPIProvider()                         *)
(*     return _weather_service                                             *)
(* No lock is held; a thread may be suspended between any two of the test, *)
(* the construction, the assignment and the read for the return.           *)

\* calls of get_weather_service one thread makes
MaxServiceCalls == 2

\* a thread that has not called get_weather_service; `made` are the
\* providers it constructed and `returned` what its calls returned
NoCaller == [pc |-> "idle", calls |-> 0, instance |-> None,
             made |-> <<>>, returned |-> <<>>]

\* WeatherAPIProvider(): a new object, named after the thread and the call
\* that construct it
NewProvider(t, n) == [provider |-> t, call |-> n]

ServiceCall(t) ==
    /\ threads[t].pc \in {"idle", "done"}
    /\ threads[t].calls < MaxServiceCalls
    /\ threads' = [threads EXCEPT ![t].pc = "test", ![t].calls = @ + 1]
    /\ UNCHANGED <<_api_key, caches, timer, today, default_zip, workload, call,
                   writes, _weather_service, stream>>

\* "if _weather_service is None:"
ServiceTest(t) ==
    /\ threads[t].pc = "test"
    /\ threads' = [threads EXCEPT ![t].pc =
                      IF _weather_service = None THEN "construct" ELSE "return"]
    /\ UNCHANGED <<_api_key, caches, timer, today, default_zip, workload, call,
                   writes, _weather_service, stream>>

\* "WeatherAPIProvider()"
ServiceConstruct(t) ==
    /\ threads[t].pc = "construct"
    /\ LET made == NewProvider(t, threads[t].calls)
       IN  threads' = [threads EXCEPT ![t].pc = "assign", ![t].instance = made,
                                      ![t].made = Append(@, made)]
    /\ UNCHANGED <<_api_key, caches, timer, today, default_zip, workload, call,
                   writes, _weather_service, stream>>

\* "_weather_service = ..."
ServiceAssign(t) ==
    /\ threads[t].pc = "assign"
    /\ _weather_service' = threads[t].instance
    /\ threads' = [threads EXCEPT ![t].pc = "return", ![t].instance = None]
    /\ UNCHANGED <<_api_key, caches, timer, today, default_zip, workload, call, writes, stream>>

\* "return _weather_service"
ServiceReturn(t) ==
    /\ threads[t].pc = "return"
    /\ threads' = [threads EXCEPT ![t].pc = "done",
                                  ![t].returned = Append(@, _weather_service)]
    /\ UNCHANGED <<_api_key, caches, timer, today, default_zip, workload, call,
                   writes, _weather_service, stream>>

-----------------------------------------------------------------------------
(* chat.py stream_azure_response, the generator behind POST /completions.  *)
(* It runs from one yield to the next each time the response asks it for   *)
(* an event.  `stream` holds its arguments and configuration, what the     *)
(* Azure OpenAI stream is going to do, where it is suspended, and the      *)
(* events it has yielded.                                                  *)

\* chunks the Azure OpenAI stream delivers at most
MaxChunks == 3

\* what iterating the Azure OpenAI stream comes to, step by step: a chunk
\* with content, a chunk with none (no choices, or an empty delta), or an
\* exception
ChunkKinds == {"content", "empty", "raise"}

RECURSIVE ScriptsOf(_)
ScriptsOf(n) ==
    IF n = 0 THEN {<<>>}
    ELSE ScriptsOf(n - 1)
            \cup {Append(sc, k) : sc \in {x \in ScriptsOf(n - 1) : Len(x) = n - 1},
                                   k \in ChunkKinds}

\* the 'message' of the request body, which chat_completions passes on as
\* it is: a str, a number or null
Messages == {[str |-> <<"h", "i">>], [int |-> 5], None}

NoStream ==
    [pc |-> "none", client |-> FALSE, deployment |-> FALSE, message |-> None,
     create_raises |-> FALSE, script |-> <<>>, events |-> <<>>]

\* the events of the stream
ErrorEvent == "error"

ContentEvent == "content"

DoneEvent == "[DONE]"

\* the generator yields an event and is suspended at pc
Yield(st, event, pc) == [st EXCEPT !.events = Append(@, event), !.pc = pc]

\* "for chunk in stream" from the next chunk on, up to the next yield: a
\* chunk with content is yielded, one with none is passed over, an
\* exception is caught by "except Exception" and yielded as an error, and
\* the end of the chunks is followed by '[DONE]'
RECURSIVE Iterate(_)
Iterate(st) ==
    IF st.script = <<>> THEN Yield(st, DoneEvent, "done")
    ELSE LET rest == [st EXCEPT !.script = Tail(@)]
         IN  CASE Head(st.script) = "content" -> Yield(rest, ContentEvent, "chunk")
               [] Head(st.script) = "empty" -> Iterate(rest)
               [] Head(st.script) = "raise" -> Yield(rest, ErrorEvent, "error")

\* the generator is asked for its first event: lines 178 to 215, up to the
\* first yield.  message[:50] in the log line raises TypeError for a message
\* that is no str, outside the try
StreamStart ==
    /\ stream.pc = "start"
    /\ stream' =
          IF "str" \notin DOMAIN stream.message
          THEN [stream EXCEPT !.pc = "raised"]
          ELSE IF ~stream.client THEN Yield(stream, ErrorEvent, "error")
          ELSE IF ~stream.deployment THEN Yield(stream, ErrorEvent, "error")
          ELSE IF stream.create_raises THEN Yield(stream, ErrorEvent, "error")
          ELSE Iterate(stream)
    /\ UNCHANGED <<_api_key, caches, timer, today, default_zip, workload, call,
                   threads, writes, _weather_service>>

\* the generator, suspended at the yield of a content event, is asked for
\* the next event
StreamNextChunk ==
    /\ stream.pc = "chunk"
    /\ stream' = Iterate(stream)
    /\ UNCHANGED <<_api_key, caches, timer, today, default_zip, workload, call,
                   threads, writes, _weather_service>>

\* the generator, suspended at the yield of an error event, is asked for
\* the next event: 'data: [DONE]'
StreamDoneAfterError ==
    /\ stream.pc = "error"
    /\ stream' = Yield(stream, DoneEvent, "done")
    /\ UNCHANGED <<_api_key, caches, timer, today, default_zip, workload, call,
                   threads, writes, _weather_service>>

\* the generator, suspended at the yield of '[DONE]', is asked for the next
\* event: it returns
StreamReturn ==
    /\ stream.pc = "done"
    /\ stream' = [stream EXCEPT !.pc = "returned"]
    /\ UNCHANGED <<_api_key, caches, timer, today, default_zip, workload, call,
                   threads, writes, _weather_service>>

-----------------------------------------------------------------------------
(* The specification *)

\* WeatherAPIProvider.__init__: the key comes from the environment, the
\* caches are empty
Init ==
    /\ workload \in Workloads
    /\ _api_key \in {NoKey, ApiKey}
    /\ default_zip \in IF "get_forecast" \in workload THEN DefaultZips ELSE {<<>>}
    /\ _weather_cache = EmptyCache
    /\ _forecast_cache = EmptyCache
    /\ _location_cache = EmptyCache
    /\ _search_cache = EmptyCache
    /\ _hourly_cache = EmptyCache
    /\ _current_cache = EmptyCache
    /\ timer = 0
    /\ today = Today0
    /\ call = Idle
    /\ threads = NoThreads
    /\ writes = <<>>
    /\ _weather_service = None
    /\ stream = NoStream

Next ==
    \/ \E location \in BundleLocations : GetWeatherData(location)
    \/ \E zip_arg \in ZipArgs, is_browser \in BOOLEAN : GetForecast(zip_arg, is_browser)
    \/ UpstreamWeatherData
    \/ \E locations \in BulkArgs : GetBulkWeather(locations)
    \/ BulkIteration
    \/ \E function \in EnrichFunctions : Enrich(function)
    \/ \E location \in Locations : GetCurrentWeather(location)
    \/ UpstreamCurrentWeather
    \/ \E location \in Locations : ValidateLocation(location)
    \/ UpstreamValidateLocation
    \/ \E query \in Queries, limit \in Limits : SearchLocations(query, limit)
    \/ UpstreamSearchLocations
    \/ \E location \in Locations, days \in DaysArgs : GetDetailedForecast(location, days)
    \/ UpstreamDetailedForecast
    \/ \E location \in Locations, date \in Dates : GetHourlyForecast(location, date)
    \/ UpstreamHourlyForecast
    \/ \E ip \in IpArgs : GetCurrentLocationByIp(ip)
    \/ UpstreamCurrentLocationByIp
    \/ Tick
    \/ \E op \in {"validate_location", "search_locations"} : Sleep(op)
    \/ Midnight

Spec == Init /\ [][Next]_vars


InitHelpers ==
    /\ workload = {}
    /\ _api_key = NoKey
    /\ default_zip = <<>>
    /\ _weather_cache = EmptyCache
    /\ _forecast_cache = EmptyCache
    /\ _location_cache = EmptyCache
    /\ _search_cache = EmptyCache
    /\ _hourly_cache = EmptyCache
    /\ _current_cache = EmptyCache
    /\ timer = 0
    /\ today = Today0
    /\ call = Idle
    /\ threads = NoThreads
    /\ writes = <<>>
    /\ _weather_service = None
    /\ stream = NoStream

NextHelpers ==
    \/ \E current_data \in CurrentWithUv : GetUvInfo(current_data)
    \/ \E uv_value \in UvValues : FromUvValue(uv_value)
    \/ \E current_data \in CurrentWithAqi : GetAqiInfo(current_data)
    \/ \E effective \in Datetimes, expires \in Datetimes : IsActive(effective, expires)
    \/ \E sunrise \in ClockInputs, sunset \in ClockInputs :
          CalculateDaylightDuration(sunrise, sunset)
    \/ \E weather_data \in AstronomyInputs, midnight \in BOOLEAN :
          EnrichWithAstronomy(weather_data, midnight)
    \/ \E api_key \in {NoKey, ApiKey}, reply \in Replies, json_error \in JsonErrors :
          MakeRequest(api_key, reply, json_error)
    \/ \E effective \in TimestampFields, expires \in TimestampFields, later \in 0..1 :
          AlertFromApiData(effective, expires, later)
    \/ \E weather_data \in SafetyResponses : FromWeatherApiResponse(weather_data)
    \/ \E self \in SafetyDatas : GetSafetySummary(self)

SpecHelpers == InitHelpers /\ [][NextHelpers]_vars

\* two requests for one operation arrive at a provider whose caches are
\* empty
InitThreads ==
    /\ workload \in {{op} : op \in ThreadOps}
    /\ _api_key \in {NoKey, ApiKey}
    /\ default_zip = <<>>
    /\ _weather_cache = EmptyCache
    /\ _forecast_cache = EmptyCache
    /\ _location_cache = EmptyCache
    /\ _search_cache = EmptyCache
    /\ _hourly_cache = EmptyCache
    /\ _current_cache = EmptyCache
    /\ timer = 0
    /\ today = Today0
    /\ call = Idle
    /\ threads = NoThreads
    /\ writes = <<>>
    /\ _weather_service = None
    /\ stream = NoStream

NextThreads ==
    \/ \E t \in Threads, q \in ThreadArgs : ThreadInvoke(t, q)
    \/ \E t \in Threads : ThreadTest(t)
    \/ \E t \in Threads : ThreadRead(t)
    \/ \E t \in Threads : ThreadUpstream(t)
    \/ \E t \in Threads : ThreadStore(t)
    \/ \E t \in Threads : ThreadStored(t)
    \/ Tick

SpecThreads == InitThreads /\ [][NextThreads]_vars

\* the process starts: the module is imported and no request has come
InitService ==
    /\ workload = {}
    /\ _api_key \in {NoKey, ApiKey}
    /\ default_zip = <<>>
    /\ _weather_cache = EmptyCache
    /\ _forecast_cache = EmptyCache
    /\ _location_cache = EmptyCache
    /\ _search_cache = EmptyCache
    /\ _hourly_cache = EmptyCache
    /\ _current_cache = EmptyCache
    /\ timer = 0
    /\ today = Today0
    /\ call = Idle
    /\ threads = [t \in Threads |-> NoCaller]
    /\ writes = <<>>
    /\ _weather_service = None
    /\ stream = NoStream

NextService ==
    \/ \E t \in Threads : ServiceCall(t)
    \/ \E t \in Threads : ServiceTest(t)
    \/ \E t \in Threads : ServiceConstruct(t)
    \/ \E t \in Threads : ServiceAssign(t)
    \/ \E t \in Threads : ServiceReturn(t)

SpecService == InitService /\ [][NextService]_vars

\* a request for a chat completion arrives: the generator is created
InitChat ==
    /\ workload = {}
    /\ _api_key = NoKey
    /\ default_zip = <<>>
    /\ _weather_cache = EmptyCache
    /\ _forecast_cache = EmptyCache
    /\ _location_cache = EmptyCache
    /\ _search_cache = EmptyCache
    /\ _hourly_cache = EmptyCache
    /\ _current_cache = EmptyCache
    /\ timer = 0
    /\ today = Today0
    /\ call = Idle
    /\ threads = NoThreads
    /\ writes = <<>>
    /\ _weather_service = None
    /\ stream \in [pc : {"start"}, client : BOOLEAN, deployment : BOOLEAN,
                    message : Messages, create_raises : BOOLEAN,
                    script : ScriptsOf(MaxChunks), events : {<<>>}]

NextChat ==
    \/ StreamStart
    \/ StreamNextChunk
    \/ StreamDoneAfterError
    \/ StreamReturn

SpecChat == InitChat /\ [][NextChat]_vars

-----------------------------------------------------------------------------
(* Properties *)

CachedOps == {"get_weather_data", "get_current_weather", "validate_location",
              "search_locations", "get_detailed_forecast", "get_hourly_forecast"}

\* the value an operation returns when it has no data
NoData(op) ==
    CASE op = "validate_location" -> Invalid
      [] op \in {"search_locations", "get_bulk_weather"} -> List(<<>>)
      [] OTHER -> None

\* the upstream outcomes that are failures: a status that is not 2xx, or a
\* failure of the transport
Failures == {"http400", "http500", "transport"}

AllCacheValues ==
    Values(_weather_cache) \cup Values(_forecast_cache) \cup Values(_location_cache)
        \cup Values(_search_cache) \cup Values(_hourly_cache) \cup Values(_current_cache)

\* C1: no cache ever holds a negative or empty result: no None, no
\* (False, None) and no empty list of search results.
C1_NoNegativeCached ==
    \A v \in AllCacheValues : v \notin {None, Invalid, List(<<>>), EmptyDict}

-----------------------------------------------------------------------------
(* Two calls in a row *)

\* an operation is entered, the one before it having returned
Begins == call.status = "done" /\ call' # call

\* no time has passed on the monotonic clock since the last return
Immediately == call.at = timer

\* the operation entered is the one that has just returned, with the same
\* arguments
SameArguments ==
    /\ call'.op = call.op /\ call'.via = call.via /\ call'.browser = call.browser
    /\ call'.q = call.q /\ call'.n = call.n /\ call'.date = call.date

\* the call that has returned missed its cache and its request (the first
\* one, where there are several) was answered with data
FirstSucceeded ==
    /\ call.op \in CachedOps /\ call.status = "done" /\ ~call.hit
    /\ call.outcomes # <<>> /\ call.outcomes[1] = "ok"

\* C3: a validate_location whose request fails or finds nothing returns
\* (False, None) and leaves the location cache as it was; the same call
\* made again issues a new request, and a validate_location whose request
\* is answered with data returns (True, location_info)
C3_NegativeValidationDoesNotStick ==
    [][ /\ ( /\ call.op = "validate_location" /\ call.status = "running"
             /\ call'.status = "done" /\ call'.outcomes[1] # "ok" )
           => call'.result = Invalid /\ _location_cache' = _location_cache
        /\ ( /\ call.op = "validate_location" /\ call.result = Invalid
             /\ call.outcomes # <<>> /\ Begins /\ SameArguments )
           => /\ ~call'.hit /\ call'.status = "running" /\ call'.requests = 1
              /\ call'.req.endpoint = "current.json" /\ call'.req.q = call.q
        /\ ( /\ call.op = "validate_location" /\ call.status = "running"
             /\ call'.status = "done" /\ call'.outcomes[1] = "ok" )
           => call'.result = [ok |-> TRUE, info |-> [name |-> Place(call.q)]]
      ]_vars

C3_Witness ==
    /\ call.status = "done" /\ call.op = "validate_location"
    /\ call.outcomes = <<"http400">> /\ call.result = Invalid
    /\ _cache_key(<<K_validate, call.q>>) \notin DOMAIN _location_cache

\* C4 as it is stated: two calls in immediate succession with the same
\* arguments, the first one answered with data, issue one request in all
C4_OneRequestInAll ==
    [][ (FirstSucceeded /\ Immediately /\ Begins /\ SameArguments)
          => call'.hit /\ call.requests + call'.requests = 1 ]_vars

\* C4: when a cached operation misses its cache and its request is answered
\* with data, the same call made again at once is a cache hit: it issues no
\* request and returns what the first call returned.  The two calls issue
\* the requests of the first: one, and for get_weather_data eight (the
\* forecast request and seven history requests)
C4_SecondCallIsHit ==
    [][ (FirstSucceeded /\ Immediately /\ Begins /\ SameArguments)
          => /\ call'.hit /\ call'.status = "done"
             /\ call'.requests = 0 /\ call'.result = call.result
             /\ call.requests = IF call.op = "get_weather_data"
                                THEN 1 + HISTORY_DAYS ELSE 1 ]_vars

C4_Witness ==
    /\ call.status = "done" /\ call.op = "get_weather_data" /\ call.via = call.op
    /\ call.hit /\ call.requests = 0
    /\ _weather_cache[_cache_key(<<K_weather, call.q>>)].by = Written(call)

-----------------------------------------------------------------------------
(* Arguments that differ in case or in surrounding whitespace *)

\* the longest argument the keys are compared for
MaxLen == 3

Alphabet == {"a", "A", "b", " "}

RECURSIVE StringsUpTo(_)
StringsUpTo(n) ==
    IF n = 0 THEN {<<>>}
    ELSE LET shorter == StringsUpTo(n - 1)
         IN  shorter \cup {Append(s, c) : s \in shorter, c \in Alphabet}

\* the same letter, in upper or in lower case
CasePairs == {{"a", "A"}, {"b", "B"}}

SameButCase(s, t) ==
    /\ Len(s) = Len(t)
    /\ \A i \in 1..Len(s) : s[i] = t[i] \/ {s[i], t[i]} \in CasePairs

\* s from its first to its last character that is not a space
Trimmed(s) ==
    LET inked == {i \in 1..Len(s) : s[i] # " "}
    IN  IF inked = {} THEN <<>>
        ELSE SubSeq(s, CHOOSE i \in inked : \A j \in inked : i <= j,
                       CHOOSE i \in inked : \A j \in inked : i >= j)

\* s and t differ only in letter case or in leading and trailing whitespace
Alike(s, t) == SameButCase(Trimmed(s), Trimmed(t))

\* the operation entered is the one that has just returned, with a location
\* or query that differs from the one before in case or surrounding
\* whitespace at most
AlikeArguments ==
    /\ call'.op = call.op /\ call'.via = call.via /\ call'.browser = call.browser
    /\ Alike(call'.q, call.q) /\ call'.n = call.n /\ call'.date = call.date

\* C5: locations or queries that differ only in letter case or in leading
\* and trailing whitespace get the same cache key, whatever the operation;
\* and when a call has missed its cache and stored the data it was answered
\* with, a call made at once with such an argument is served from that
\* entry: it issues no request and returns the same result
C5_KeysIgnoreCaseAndSpace ==
    /\ \A s \in StringsUpTo(MaxLen), t \in StringsUpTo(MaxLen) :
          Alike(s, t) =>
              \A prefix \in {K_weather, K_current, K_validate, K_search,
                             K_detailed, K_hourly} :
                  /\ _cache_key(<<prefix, s>>) = _cache_key(<<prefix, t>>)
                  /\ _cache_key(<<prefix, s, StrInt(10)>>) = _cache_key(<<prefix, t, StrInt(10)>>)
    /\ [][ (FirstSucceeded /\ Immediately /\ Begins /\ AlikeArguments)
             => /\ call'.hit /\ call'.status = "done"
                /\ call'.requests = 0 /\ call'.result = call.result ]_vars

\* C5, with search_locations taken as it is: locations or queries that
\* differ only in letter case or in leading and trailing whitespace get the
\* same cache key, whatever the operation.  When a call has missed its cache
\* and stored the data it was answered with, a call made at once with such
\* an argument is served from that entry, issuing no request and returning
\* the same result, unless it is a search_locations whose query as written
\* has fewer than two characters: that call returns the empty list without
\* a look at the cache
C5_AlikeCallIsHit ==
    /\ \A s \in StringsUpTo(MaxLen), t \in StringsUpTo(MaxLen) :
          Alike(s, t) =>
              \A prefix \in {K_weather, K_current, K_validate, K_search,
                             K_detailed, K_hourly} :
                  _cache_key(<<prefix, s, StrInt(0)>>) = _cache_key(<<prefix, t, StrInt(0)>>)
    /\ [][ (FirstSucceeded /\ Immediately /\ Begins /\ AlikeArguments)
             => IF call'.op = "search_locations" /\ Len(call'.q) < 2
                THEN /\ ~call'.hit /\ call'.status = "done"
                     /\ call'.requests = 0 /\ call'.result = List(<<>>)
                ELSE /\ call'.hit /\ call'.status = "done"
                     /\ call'.requests = 0 /\ call'.result = call.result ]_vars

C5_Witness ==
    /\ call.status = "done" /\ call.op = "get_current_weather"
    /\ call.hit /\ call.requests = 0 /\ call.q = <<" ", "A", " ">>
    /\ _current_cache[_cache_key(<<K_current, call.q>>)].by = <<<<"a">>, <<>>>>
    /\ call.result = _current_cache[_cache_key(<<K_current, <<"a">> >>)].value

-----------------------------------------------------------------------------
(* get_weather_data and its history *)

\* the history list that comes of requests 1..Len(ok) for location when
\* ok[i] tells whether request i was answered with data and the date is
\* `day` all the while
RECURSIVE HistoryOf(_, _, _)
HistoryOf(location, ok, day) ==
    IF ok = <<>> THEN <<>>
    ELSE LET before == HistoryOf(location, SubSeq(ok, 1, Len(ok) - 1), day)
             dt == Strftime(DaysAgo(day, Len(ok)))
         IN  IF ok[Len(ok)]
             THEN Append(before, [location |-> [name |-> Place(location)],
                                  forecast |-> [forecastday |-> List(<<ForecastDay(dt)>>)]])
             ELSE before

\* C6: on a cache miss with the key configured, get_weather_data returns
\* None exactly when its forecast request fails (HTTP error, transport
\* error) or finds nothing (HTTP 400, empty answer).  Otherwise it returns
\* without raising, after the forecast request and seven history requests,
\* a bundle whose history holds the answers of the history requests that
\* were answered with data and no others, in the order of the requests
C6_PartialHistory ==
    (/\ call.status = "done" /\ call.op = "get_weather_data"
     /\ ~call.hit /\ _api_key # NoKey)
    => /\ ~call.raised
       /\ call.result = None <=> call.outcomes # <<"ok">>
       /\ call.result # None =>
            /\ call.requests = 1 + HISTORY_DAYS
            /\ Len(call.hist_ok) = HISTORY_DAYS
            /\ Len(call.result.history.list) =
                 Cardinality({i \in 1..HISTORY_DAYS : call.hist_ok[i]})
            /\ today = Today0 =>
                 call.result.history.list = HistoryOf(call.q, call.hist_ok, Today0)

C6_Witness ==
    /\ call.status = "done" /\ call.op = "get_weather_data" /\ ~call.hit
    /\ call.requests = 1 + HISTORY_DAYS /\ call.transport_errors = 2
    /\ call.hist_ok = <<TRUE, FALSE, TRUE, TRUE, FALSE, TRUE, TRUE>>
    /\ call.result # None /\ Len(call.result.history.list) = 5

-----------------------------------------------------------------------------
(* No API key *)

\* C7: with no API key configured no request is ever issued: an operation
\* that misses its cache returns its no-data value at once, without
\* raising, and the route GET /forecast, asked for JSON with a ZIP code or
\* a default, answers 500 'Unable to fetch weather data'
C7_NoKeyNoRequest ==
    _api_key = NoKey
    => /\ call.requests = 0 /\ call.req = None /\ ~call.raised
       /\ call.status = "done" => call.result = NoData(call.op) /\ ~call.hit
       /\ (call.status = "done" /\ call.via = "get_forecast"
              /\ call.op = "get_weather_data")
          => call.response = [status |-> 500,
                              body |-> [error |-> "Unable to fetch weather data"]]

C7_Witness ==
    /\ _api_key = NoKey /\ call.status = "done"
    /\ call.via = "get_forecast" /\ call.op = "get_weather_data"
    /\ call.requests = 0 /\ call.result = None /\ call.response.status = 500

-----------------------------------------------------------------------------
(* get_current_location_by_ip *)

\* C8: when the IP lookup is answered with data and the request for the
\* current conditions that follows fails or finds nothing,
\* get_current_location_by_ip returns a result with user_info set and
\* current_weather None
C8_FollowUpFailureDegrades ==
    (/\ call.status = "done" /\ call.op = "get_current_location_by_ip"
     /\ Len(call.outcomes) = 2 /\ call.outcomes[1] = "ok"
     /\ call.outcomes[2] \in Failures)
    => /\ call.result # None
       /\ call.result.user_info # None
       /\ call.result.current_weather = None

-----------------------------------------------------------------------------
(* get_hourly_forecast *)

\* get_hourly_forecast has just issued its request
HourlyIssued ==
    /\ call.status # "running"
    /\ call'.status = "running" /\ call'.op = "get_hourly_forecast"

\* C9: the request goes to the forecast endpoint when the
\* date is today or later, by the wall clock at the time of the call, and
\* to the history endpoint when it is before today
C9_ForecastFromToday ==
    [][ HourlyIssued =>
          LET target_date == Strptime(call'.date).date
          IN  call'.req.endpoint =
                IF target_date = today \/ DateGT(target_date, today)
                THEN "forecast.json" ELSE "history.json" ]_vars

\* C10: get_hourly_forecast returns None whenever its date does not parse
\* as YYYY-MM-DD, whatever its cache holds
C10_UnparseableDateIsNone ==
    (/\ call.status = "done" /\ call.op = "get_hourly_forecast"
     /\ ~Strptime(call.date).ok)
    => call.result = None

-----------------------------------------------------------------------------
(* search_locations *)

\* C11: search_locations called with a query of fewer than two characters,
\* the empty query included, returns the empty list at once: it issues no
\* request, it does not answer from the search cache even when the cache
\* holds an entry under the key of the query, and it leaves every cache as
\* it was
C11_ShortQueryTouchesNothing ==
    [][ (/\ call.status # "running" /\ call' # call
         /\ call'.op = "search_locations"
         /\ Len(call'.q) < 2)
        => /\ call'.status = "done" /\ call'.result = List(<<>>)
           /\ call'.requests = 0 /\ ~call'.hit /\ ~call'.raised
           /\ UNCHANGED caches ]_vars

C11_Witness ==
    /\ call.status = "done" /\ call.op = "search_locations"
    /\ call.q = <<"a">> /\ call.n = 10
    /\ call.result = List(<<>>) /\ call.requests = 0 /\ ~call.hit
    /\ Contains(_search_cache, _cache_key(<<K_search, call.q, StrInt(call.n)>>))
    /\ _api_key # NoKey

NonEmpty(part) == part # <<>>

\* C12: every SearchResult search_locations returns has for display the
\* parts of (name, region, country) that are not empty, joined by ', ', and
\* for value its name
C12_DisplayJoinsNonEmptyParts ==
    (call.status = "done" /\ call.op = "search_locations")
    => \A i \in 1..Len(call.result.list) :
          LET item == call.result.list[i]
          IN  /\ item.value = item.name
              /\ item.display =
                   Join(CommaSpace,
                        SelectSeq(<<item.name, item.region, item.country>>, NonEmpty))

-----------------------------------------------------------------------------
(* get_bulk_weather *)

IsData(v) == v # None

-----------------------------------------------------------------------------
(* GET /forecast *)

\* C14: to a client that is not a browser, GET /forecast answers 400,
\* without calling the provider, exactly when no zip is given and no default
\* is configured.  Otherwise it calls the provider and answers 200 with the
\* forecast and the history of the bundle when the provider returns one,
\* and 500 'Unable to fetch weather data' when the provider returns None
C14_ForecastRouteStatus ==
    (call.via = "get_forecast" /\ ~call.browser)
    => /\ ~call.raised
       /\ call.op = "get_forecast" <=> (call.q = <<>> /\ default_zip = <<>>)
       /\ call.op = "get_forecast" =>
            /\ call.status = "done" /\ call.requests = 0 /\ ~call.hit
            /\ call.response =
                 [status |-> 400,
                  body |-> [error |-> "ZIP code is required and no default is configured"]]
       /\ (call.op = "get_weather_data" /\ call.status = "done") =>
            /\ call.response.status = 200 <=> call.result # None
            /\ call.result # None =>
                 call.response.body = [forecast |-> call.result.forecast,
                                       history |-> call.result.history]
            /\ call.result = None =>
                 call.response = [status |-> 500,
                                  body |-> [error |-> "Unable to fetch weather data"]]

C14_Witness ==
    /\ call.via = "get_forecast" /\ ~call.browser /\ call.status = "done"
    /\ call.q = <<" ", "A", " ">> /\ ~call.hit
    /\ call.response.status = 200
    /\ Len(call.response.body.history.list) = 6


UvRank(level) ==
    CASE level \in {"Low"} -> 1
      [] level \in {"Moderate"} -> 2
      [] level \in {"High"} -> 3
      [] level \in {"Very High"} -> 4
      [] level \in {"Extreme"} -> 5

\* the UV value a classification was asked for
UvAsked == Get(call.arg, "uv", 0)

\* C15: the UV classification gives Low up to 2, Moderate up to 5, High up
\* to 7, Very High up to 10 and Extreme above, so that the level never
\* falls as the value rises; and a negative value is clamped to zero: its
\* classification, the value it reports included, is that of 0
C15_UvBandsAndClamp ==
    call.op \in {"get_uv_info", "from_uv_value"}
    => /\ call.result.level =
            (IF UvAsked <= 20 THEN "Low"
             ELSE IF UvAsked <= 50 THEN "Moderate"
             ELSE IF UvAsked <= 70 THEN "High"
             ELSE IF UvAsked <= 100 THEN "Very High"
             ELSE "Extreme")
       /\ \A v \in UvValues :
            v <= UvAsked =>
              /\ UvRank(get_uv_info([uv |-> v]).level) <= UvRank(call.result.level)
              /\ UvRank(from_uv_value(v).level) <= UvRank(call.result.level)
       /\ UvAsked < 0 =>
            call.result = IF call.op = "get_uv_info" THEN get_uv_info([uv |-> 0])
                          ELSE from_uv_value(0)

\* the six levels of the EPA index with their colors
AqiTable ==
    << <<"Good", "#00E400">>, <<"Moderate", "#FFFF00">>,
       <<"Unhealthy for Sensitive Groups", "#FF7E00">>, <<"Unhealthy", "#FF0000">>,
       <<"Very Unhealthy", "#8F3F97">>, <<"Hazardous", "#7E0023">> >>

\* C16: get_aqi_info returns None exactly when the EPA index is 0 or is
\* missing, with or without an air_quality block; for an index from 1 to 6
\* it returns the level and the color of that index in the table of six,
\* with the pm2_5 and pm10 readings of the block as they are
C16_AqiTable ==
    call.op = "get_aqi_info"
    => LET has_block == "air_quality" \in DOMAIN call.arg
           has_index == has_block /\ "us-epa-index" \in DOMAIN call.arg.air_quality
           index == IF has_index THEN call.arg.air_quality["us-epa-index"] ELSE 0
       IN  /\ call.result = None <=> (~has_index \/ index = 0)
           /\ index \in 1..6 =>
                /\ call.result.value = index
                /\ call.result.level = AqiTable[index][1]
                /\ call.result.color = AqiTable[index][2]
                /\ "pm2_5" \in DOMAIN call.arg.air_quality =>
                     call.result.pm2_5 = call.arg.air_quality.pm2_5
                /\ "pm10" \in DOMAIN call.arg.air_quality =>
                     call.result.pm10 = call.arg.air_quality.pm10

C16_Witness ==
    /\ call.op = "get_aqi_info"
    /\ call.arg = [uv |-> 10,
                   air_quality |-> ("us-epa-index" :> 5) @@ [pm2_5 |-> 84, pm10 |-> 120]]
    /\ call.result.level = "Very Unhealthy" /\ call.result.color = "#8F3F97"
    /\ call.result.pm2_5 = 84 /\ call.result.pm10 = 120

\* the instant of a datetime, the call being made at the instant 0
Instant(d) == IF d.aware THEN d.t ELSE d.t - ServerOffset

\* C17: is_active returns true exactly when effective <= now <= expires,
\* whether the timestamps carry a zone offset or not: true for an alert in
\* effect for an hour and expiring in an hour, false when it has expired,
\* false when it is not yet in effect
C17_ActiveIffWithinWindow ==
    call.op = "is_active"
    => call.result = [active |-> /\ Instant(call.arg.effective) <= 0
                                 /\ 0 <= Instant(call.arg.expires)]

\* C18: for two well-formed 12-hour clock strings calculate_daylight_duration
\* returns the minutes from sunrise to sunset, a day added when sunset is
\* the earlier, as 'Hh Mm' with H from 0 to 23 and M from 0 to 59; when
\* either string is empty or malformed it returns None
C18_DaylightDuration ==
    call.op = "calculate_daylight_duration"
    => LET rise == call.arg.sunrise.minute
           set == call.arg.sunset.minute
           minutes == IF set - rise < 0 THEN set - rise + 24 * 60 ELSE set - rise
       IN  IF rise < 0 \/ set < 0 THEN call.result = None
           ELSE /\ minutes \div 60 \in 0..23 /\ minutes % 60 \in 0..59
                /\ call.result = [str |-> StrNat(minutes \div 60) \o <<"h", " ">>
                                          \o StrNat(minutes % 60) \o <<"m">>]

\* from 11:00 PM to 01:00 AM there are 2h 0m
C18_Witness ==
    /\ call.op = "calculate_daylight_duration"
    /\ call.arg.sunrise.text = <<"1", "1", ":", "0", "0", " ", "P", "M">>
    /\ call.arg.sunset.text = <<"0", "1", ":", "0", "0", " ", "A", "M">>
    /\ call.result = [str |-> <<"2", "h", " ", "0", "m">>]

\* enrich_with_astronomy was called with weather data that has forecast days
EnrichedForecast ==
    /\ call.op = "enrich_with_astronomy"
    /\ call.arg.weather_data # None
    /\ "forecast" \in DOMAIN call.arg.weather_data
    /\ call.arg.weather_data.forecast.forecastday # List(<<>>)

\* the days of f are days of the forecast, in the order of the forecast
RECURSIVE InForecastOrder(_, _)
InForecastOrder(f, forecastdays) ==
    IF f = <<>> THEN TRUE
    ELSE IF forecastdays = <<>> THEN FALSE
    ELSE IF Head(f).date = Head(forecastdays).date
         THEN InForecastOrder(Tail(f), Tail(forecastdays))
         ELSE InForecastOrder(f, Tail(forecastdays))

\* astronomy_forecast holds at most 5 days in forecast order, none of them
\* the current day, and the keys of the input are as they were
AstronomyForecastAndFrame ==
    EnrichedForecast
    => LET weather_data == call.arg.weather_data
           astronomy_forecast == call.result.astronomy_forecast
       IN  /\ Len(astronomy_forecast) <= 5
           /\ InForecastOrder(astronomy_forecast, weather_data.forecast.forecastday.list)
           /\ \A i \in 1..Len(astronomy_forecast) :
                /\ ~astronomy_forecast[i].is_current_day
                /\ Strptime(astronomy_forecast[i].date).date # today
           /\ \A k \in DOMAIN weather_data : call.result[k] = weather_data[k]

\* C19: after enrich_with_astronomy on weather data with forecast days,
\* astronomy_info, when set, describes the current day (is_current_day is
\* true), astronomy_forecast holds at most 5 days in forecast order, none
\* the current day, and all other keys of the input are unchanged
C19_AstronomyOfCurrentDay ==
    /\ AstronomyForecastAndFrame
    /\ EnrichedForecast /\ "astronomy_info" \in DOMAIN call.result
       => /\ call.result.astronomy_info.is_current_day
          /\ Strptime(call.result.astronomy_info.date).date = call.arg.today

-----------------------------------------------------------------------------
(* The cached value and the enrichment of a returned result *)

\* the keys the enrichment functions add
EnrichmentKeys == {"uv_info", "aqi_info", "alerts_info", "astronomy_info",
                   "astronomy_forecast"}

\* C20: a value held in a provider cache changes only through the
\* provider's own cache writes: after a caller passes a result it received
\* to enrich_weather_data or enrich_with_astronomy, the cached value has
\* none of the keys the enrichment adds, and a later cache hit for the same
\* key returns the value without them
C20_CacheUntouchedByEnrichment ==
    /\ \A k \in DOMAIN _weather_cache :
          _weather_cache[k].value # Forgotten
          => DOMAIN _weather_cache[k].value \cap EnrichmentKeys = {}
    /\ call.op = "get_weather_data" /\ call.hit
       => DOMAIN call.result \cap EnrichmentKeys = {}

-----------------------------------------------------------------------------
(* Two threads in one cached operation *)

\* both threads have returned, each found the key missing, and the
\* upstream answered every request of theirs with data
BothMissed ==
    \A t \in Threads :
        /\ threads[t].pc = "done"
        /\ threads[t].missed
        /\ threads[t].c.requests > 0
        /\ \A i \in 1..Len(threads[t].c.outcomes) : threads[t].c.outcomes[i] = "ok"

\* the requests one pass through the operation makes
RequestsOfOnePass(op) == IF op = "get_weather_data" THEN 1 + HISTORY_DAYS ELSE 1

\* C21: when two callers concurrently invoke the same cached operation for
\* the same missing key, under every interleaving each returns a successful
\* result without raising, each makes the upstream requests of one pass at
\* most, and the cache afterwards holds the result written last
C21_ConcurrentMissesBothSucceed ==
    BothMissed
    => /\ \A t \in Threads :
            /\ ~threads[t].c.raised
            /\ threads[t].c.result # NoDataOf(threads[t].c.op)
            /\ threads[t].c.requests <= RequestsOfOnePass(threads[t].c.op)
       /\ \A t \in Threads :
            LET cache == CacheOf(threads[t].c.op)
                key == KeyOf(threads[t].c)
            IN  writes # <<>> /\ Contains(cache, key)
                => cache[key].by[3] = writes[Len(writes)]

\* C22: on the cache-hit path of a cached operation the membership test
\* and the read that follows act as one step: if the entry expires or is
\* evicted between the two, the operation still returns a result or its
\* no-data value, and no exception escapes to the caller
C22_HitPathNeverRaises ==
    \A t \in Threads :
        threads[t].found /\ threads[t].pc = "done"
        => /\ ~threads[t].c.raised
           /\ threads[t].c.hit \/ threads[t].c.result = NoDataOf(threads[t].c.op)

-----------------------------------------------------------------------------
(* The provider of the process *)

\* the providers constructed so far, and what the calls returned so far
Constructed == UNION {{threads[t].made[i] : i \in 1..Len(threads[t].made)} : t \in Threads}

ReturnedProviders ==
    UNION {{threads[t].returned[i] : i \in 1..Len(threads[t].returned)} : t \in Threads}

\* C23: get_weather_service constructs at most one WeatherAPIProvider per
\* process: every call, from any thread and under any interleaving of first
\* calls, returns the same instance, so one set of caches exists
C23_OneProviderPerProcess ==
    /\ Cardinality(Constructed) <= 1
    /\ Cardinality(ReturnedProviders) <= 1




-----------------------------------------------------------------------------
(* Time to live *)

\* the time to live the cache of an operation is said to have, in seconds
SaidTtl(op) ==
    CASE op = "validate_location" -> 3600
      [] op = "search_locations" -> 600
      [] OTHER -> 300

\* an operation with a cache is entered
EntersCached == call.status # "running" /\ call' # call /\ call'.op \in CachedOps

\* the cache of the operation entered has stored a result under the key of
\* the call, and has not dropped it since to make room
StoredFor(c) == c.op \in CachedOps /\ KeyOf(c) \in DOMAIN CacheOf(c.op)

\* seconds since the result under the key of the call was stored
Age(c) == timer - CacheOf(c.op)[KeyOf(c)].at

\* the call is one its operation goes upstream for when its cache is empty:
\* the API key is configured, a search query is not too short and the date
\* of an hourly forecast parses
GoesUpstream(c) ==
    /\ _api_key # NoKey
    /\ c.op = "search_locations" => ~QueryTooShort(c.q)
    /\ c.op = "get_hourly_forecast" => Strptime(c.date).ok

\* C24: a call answers from its cache only while less than the time to
\* live of the cache has passed since the result was stored (300 s for
\* weather, detailed forecast, hourly forecast and current conditions,
\* 3600 s for validated locations, 600 s for searches); a call made when
\* that time or more has passed does not answer from the cache and, its
\* arguments being ones the operation goes upstream for, issues its request
\* upstream again
C24_CachedOnlyWithinTtl ==
    [][ EntersCached =>
          /\ call'.hit => StoredFor(call') /\ Age(call') < SaidTtl(call'.op)
          /\ ( /\ StoredFor(call') /\ Age(call') >= SaidTtl(call'.op)
               /\ GoesUpstream(call') )
             => /\ ~call'.hit /\ call'.status = "running"
                /\ call'.requests = 1
          /\ (StoredFor(call') /\ Age(call') >= SaidTtl(call'.op)) => ~call'.hit ]_vars

C24_Witness ==
    /\ call.op = "validate_location" /\ call.status = "running"
    /\ StoredFor(call) /\ Age(call) = 3600
    /\ call.requests = 1 /\ ~call.hit

C24_WitnessHit ==
    /\ call.op = "validate_location" /\ call.status = "done" /\ call.hit
    /\ StoredFor(call) /\ Age(call) = 3300

-----------------------------------------------------------------------------
(* The requests of get_weather_data *)

\* the dates the wall clock shows in the course of a run
PossibleTodays == {DaysAfter(Today0, k) : k \in 0..MaxMidnights}

\* get_weather_data, called by a client or by the route, takes a step: the
\* response to its pending request has come
WeatherDataResumes ==
    /\ call.op = "get_weather_data" /\ call.via # "get_bulk_weather"
    /\ call.status = "running" /\ call' # call

\* the step issues a history request, and no other request
IssuesHistory ==
    /\ call'.op = "get_weather_data" /\ call'.status = "running"
    /\ call'.requests = call.requests + 1
    /\ call'.req.endpoint = "history.json" /\ call'.req.q = call.q

\* the forecast request answered with data is followed by the history
\* request of the day before today, each history request but the seventh
\* by another history request whatever its answer, the seventh by none; a
\* forecast request that fails or finds nothing is followed by no request
SevenHistoryRequests ==
    [][ WeatherDataResumes =>
          /\ call.stage = 0 => call.req.endpoint = "forecast.json"
          /\ (call.stage = 0 /\ call'.outcomes[Len(call'.outcomes)] = "ok")
                => IssuesHistory /\ call'.stage = 1
          /\ (call.stage = 0 /\ call'.outcomes[Len(call'.outcomes)] # "ok")
                => call'.requests = call.requests
          /\ call.stage \in 1..(HISTORY_DAYS - 1)
                => IssuesHistory /\ call'.stage = call.stage + 1
          /\ call.stage = HISTORY_DAYS => call'.requests = call.requests ]_vars

\* C25: on a miss get_weather_data issues its requests one after the other:
\* the forecast request first and then, only if it was answered with data,
\* exactly seven history requests, for the seven distinct dates today-1
\* down to today-7 in that order, whether or not earlier ones failed; when
\* the forecast request fails or finds nothing no history request is issued
C25_ForecastThenSevenHistoryDays ==
    [][ WeatherDataResumes =>
          /\ (call.stage = 0 /\ call'.outcomes[Len(call'.outcomes)] = "ok")
                => /\ IssuesHistory /\ call'.stage = 1
                   /\ call'.req.dt = Strftime(DaysAgo(today, 1))
          /\ (call.stage = 0 /\ call'.outcomes[Len(call'.outcomes)] # "ok")
                => call'.requests = call.requests
          /\ call.stage \in 1..(HISTORY_DAYS - 1)
                => /\ IssuesHistory /\ call'.stage = call.stage + 1
                   /\ \E d \in PossibleTodays :
                        /\ call.req.dt = Strftime(DaysAgo(d, call.stage))
                        /\ call'.req.dt = Strftime(DaysAgo(d, call.stage + 1))
          /\ call.stage = HISTORY_DAYS => call'.requests = call.requests ]_vars

-----------------------------------------------------------------------------
(* _make_request *)

\* C26: _make_request, the API key being configured, issues exactly one
\* HTTP GET with the key among its parameters; it returns the parsed JSON
\* on a 2xx response with a JSON body and None on HTTP 400, and it raises
\* APIRequestError on every other status that is not 2xx and on every
\* failure of the transport
C26_OneGetAndTypedErrors ==
    (call.op = "_make_request" /\ call.arg.api_key # NoKey)
    => LET reply == call.arg.reply
           is_2xx == reply.status \in 200..299
       IN  /\ call.result.gets = 1 /\ call.result.key = call.arg.api_key
           /\ (is_2xx /\ reply.body = "json")
                => call.result.r = Returned(Parsed(reply))
           /\ reply.status = 400 => call.result.r = Returned(None)
           /\ (reply # NoReply /\ ~is_2xx /\ reply.status # 400)
                => call.result.r = Raised("APIRequestError")
           /\ reply = NoReply => call.result.r = Raised("APIRequestError")

\* the same, the statuses that are neither 2xx nor 400 being those from 400
\* to 599
MakeRequestOnErrorStatuses ==
    (call.op = "_make_request" /\ call.arg.api_key # NoKey)
    => LET reply == call.arg.reply
       IN  /\ call.result.gets = 1 /\ call.result.key = call.arg.api_key
           /\ (reply.status \in 200..299 /\ reply.body = "json")
                => call.result.r = Returned(Parsed(reply))
           /\ reply.status = 400 => call.result.r = Returned(None)
           /\ (reply.status \in 401..599)
                => call.result.r = Raised("APIRequestError")
           /\ reply = NoReply => call.result.r = Raised("APIRequestError")

-----------------------------------------------------------------------------
(* Alerts with a timestamp that is missing or does not parse *)

\* C27: an alert whose 'effective' or 'expires' is missing or does not parse
\* is still constructed by WeatherAlert.from_api_data, with that timestamp
\* set to the current time, and is_active() and to_dict() of the alert
\* complete without raising, whether or not the other timestamp carries a
\* zone offset
C27_FallbackTimestampNeverRaises ==
    call.op = "WeatherAlert.from_api_data"
    => /\ call.arg.effective.kind # "iso"
            => call.result.alert.effective = NaiveNow(0)
       /\ call.arg.expires.kind # "iso"
            => call.result.alert.expires = NaiveNow(0)
       /\ (call.arg.effective.kind # "iso" \/ call.arg.expires.kind # "iso")
            => /\ call.result.is_active # TypeError
               /\ call.result.to_dict # TypeError

\* an alert with a fallback timestamp is constructed with it set to the
\* current time, and is_active() and to_dict() complete on it when the
\* other timestamp is a fallback too or carries no zone offset
FallbackTimestampBesideNaive ==
    call.op = "WeatherAlert.from_api_data"
    => /\ call.arg.effective.kind # "iso"
            => call.result.alert.effective = NaiveNow(0)
       /\ call.arg.expires.kind # "iso"
            => call.result.alert.expires = NaiveNow(0)
       /\ ( /\ call.arg.effective.kind # "iso" \/ call.arg.expires.kind # "iso"
            /\ ~call.result.alert.effective.aware
            /\ ~call.result.alert.expires.aware )
            => /\ call.result.is_active # TypeError
               /\ call.result.to_dict # TypeError

-----------------------------------------------------------------------------
(* The air quality of SafetyWeatherData *)

\* the six levels of AQILevel, by EPA index
SixLevels ==
    <<"good", "moderate", "unhealthy_for_sensitive_groups", "unhealthy",
      "very_unhealthy", "hazardous">>

\* the EPA index of the response, 0 when there is none
EpaIndexOf(weather_data) ==
    LET current == Get(weather_data, "current", NoFields)
        air_quality == Get(current, "air_quality", NoFields)
    IN  Get(air_quality, "us-epa-index", 0)

\* C28: from_weather_api_response yields no air-quality classification
\* (air_quality is None) whenever the EPA index is 0 or missing, and for
\* each index from 1 to 6 the classification with the matching one of the
\* six levels
C28_NoClassificationForIndexZero ==
    call.op = "from_weather_api_response"
    => LET index == EpaIndexOf(call.arg)
       IN  /\ index = 0 => call.result.air_quality = None
           /\ index \in 1..6 =>
                /\ call.result.air_quality # None
                /\ call.result.air_quality.epa_index = index
                /\ call.result.air_quality.level = SixLevels[index]

\* without an air_quality block, or with an empty one, air_quality is None;
\* for each index from 1 to 6 it is the classification of that index
AirQualityOfSixLevels ==
    call.op = "from_weather_api_response"
    => LET index == EpaIndexOf(call.arg)
           current == Get(call.arg, "current", NoFields)
       IN  /\ Get(current, "air_quality", NoFields) = NoFields
                => call.result.air_quality = None
           /\ index \in 1..6 =>
                /\ call.result.air_quality # None
                /\ call.result.air_quality.epa_index = index
                /\ call.result.air_quality.level = SixLevels[index]

-----------------------------------------------------------------------------
(* The safety summary *)

\* the alerts of the call that are in effect at the instant 0 of the call
InEffect(alerts) ==
    {i \in 1..Len(alerts) :
        Instant(alerts[i].effective) <= 0 /\ 0 <= Instant(alerts[i].expires)}

\* the priorities the sources of a summary contribute: 0=Safe, 1=Caution,
\* 2=Warning, 3=Danger
Contributions(self) ==
    {0}
    \cup (IF self.uv_index = None THEN {}
          ELSE {CASE self.uv_index.level = "Extreme" -> 3
                  [] self.uv_index.level = "Very High" -> 2
                  [] self.uv_index.level = "High" -> 1
                  [] OTHER -> 0})
    \cup (IF self.air_quality = None THEN {}
          ELSE {CASE self.air_quality.level = "hazardous" -> 3
                  [] self.air_quality.level = "very_unhealthy" -> 3
                  [] self.air_quality.level = "unhealthy" -> 2
                  [] self.air_quality.level = "unhealthy_for_sensitive_groups" -> 1
                  [] OTHER -> 0})
    \cup {CASE self.alerts[i].severity = "extreme" -> 3
            [] self.alerts[i].severity = "severe" -> 3
            [] self.alerts[i].severity = "moderate" -> 2
            [] OTHER -> 0 : i \in InEffect(self.alerts)}

\* the summary is the one the claim describes
SummaryAsSaid(self, summary) ==
    /\ summary # TypeError
    /\ summary.priority \in 0..3
    /\ summary.priority \in Contributions(self)
    /\ \A p \in Contributions(self) : p <= summary.priority
    /\ summary.priority_label
            = <<"Safe", "Caution", "Warning", "Danger">>[summary.priority + 1]
    /\ summary.has_concerns <=> summary.concerns # <<>>
    /\ summary.active_alerts_count = Cardinality(InEffect(self.alerts))
    /\ Cardinality({i \in 1..Len(summary.concerns) :
                        summary.concerns[i].of \notin {"uv", "aqi"}})
            = Cardinality(InEffect(self.alerts))

\* C29: get_safety_summary returns a priority in 0..3 that is the maximum
\* of the priorities of the UV level, of the AQI level and of each alert
\* in effect (an alert not in effect adds neither priority nor concern),
\* priority_label the entry of Safe, Caution, Warning, Danger for it,
\* has_concerns true exactly when the list of concerns is not empty, and
\* active_alerts_count the number of alerts in effect
C29_SummaryIsMaxOfSources ==
    call.op = "get_safety_summary" => SummaryAsSaid(call.arg, call.result)

\* the same of a SafetyWeatherData of which no alert mixes a timestamp with
\* a zone offset and one without
SummaryOfComparableAlerts ==
    ( /\ call.op = "get_safety_summary"
      /\ \A i \in 1..Len(call.arg.alerts) :
            call.arg.alerts[i].effective.aware = call.arg.alerts[i].expires.aware )
    => SummaryAsSaid(call.arg, call.result)

-----------------------------------------------------------------------------
(* The events of a chat stream *)

\* the stream is over: the generator has returned or raised
StreamOver == stream.pc \in {"returned", "raised"}

\* the number of events of one kind
Count(events, kind) == Cardinality({i \in 1..Len(events) : events[i] = kind})

\* the request is on one of the three failure paths: no client, no
\* deployment, or an exception before or while the chunks are read
FailurePath ==
    \/ stream.pc = "raised"
    \/ Count(stream.events, ErrorEvent) > 0

\* the events of a stream that is over are as the claim says
EventsAsSaid(events) ==
    /\ events # <<>> /\ events[Len(events)] = DoneEvent
    /\ Count(events, DoneEvent) = 1
    /\ FailurePath =>
          /\ Count(events, ErrorEvent) = 1
          /\ Len(events) >= 2 /\ events[Len(events) - 1] = ErrorEvent
    /\ \A i \in 1..Len(events), j \in 1..Len(events) :
          (i < j /\ events[i] = ErrorEvent) => events[j] # ContentEvent

\* C30: stream_azure_response ends every stream with exactly one
\* 'data: [DONE]' event, emitted last, whether the client is not configured,
\* the deployment is not configured, the stream completes, or an exception
\* is raised before or during streaming; on the three failure paths exactly
\* one error event is emitted, immediately before '[DONE]', and no content
\* event follows an error event
C30_EveryStreamEndsWithDone ==
    StreamOver => stream.pc = "returned" /\ EventsAsSaid(stream.events)

\* the same of the requests whose message is a str
StreamOfTextMessage ==
    (StreamOver /\ "str" \in DOMAIN stream.message)
    => stream.pc = "returned" /\ EventsAsSaid(stream.events)

=============================================================================
